---- MODULE Spec2Model ----
(***************************************************************************)
(* Session formation and relay protocol of src/networkWorker.js.           *)
(*                                                                         *)
(* Every peer runs the same worker.  The PeerJS library and the directory  *)
(* service behind it are the environment: the directory grants the         *)
(* rendezvous identity BASE_PEER_ID to at most one claimant, a data        *)
(* connection is a pair of reliable FIFO queues, and a connection that     *)
(* goes down has its `open` flag cleared before its 'close' event is       *)
(* handled (other events of the same worker may be handled in between).    *)
(***************************************************************************)
EXTENDS Integers, Sequences, FiniteSets, TLC

\* Bounds of the model.
NumPeers == 3
MaxLobbySize == 3
MaxConns == 4
MaxErrors == 1
MaxDrops == 1
MaxPackets == 2
MaxChunkSize == 2
MaxRenderDistance == 3
MaxCoord == 1
MaxSeed == 2
MaxDuration == 2
MaxUpdates == 3
MaxCalls == 2
MaxStreams == 3
MaxDraws == 2
MaxCells == 3
MaxTime == 8
MaxAI == 2
ResolutionBound == 1

Peers == 1..NumPeers
ConnIds == 1..MaxConns
LobbySizes == 1..MaxLobbySize
PacketTypes == {"message", "player_state"}
ChunkSizes == 1..MaxChunkSize
RenderDistances == 1..MaxRenderDistance
Coords == (0 - MaxCoord)..MaxCoord
Points == Coords \X Coords
Seeds == 0..MaxSeed
\* Pairs <<chunkSize, renderDistance>>; the last one has the proportions of
\* a chunk size of 100 with a render distance of 150, at those very values.
Geometries == (ChunkSizes \X RenderDistances) \cup {<<100, 150>>}
Durations == 0..MaxDuration

VARIABLES
    LOBBY_SIZE,            \* configured capacity (init message, line 40)
    started,               \* peer -> its Peer object has opened
    isBase,                \* peer -> isBase
    lobbyConnectedPeers,   \* peer -> roster, a sequence of identities
    lobbyPeerConnections,  \* peer -> [identity -> tracked connection, 0 = none]
    lobbyFull,             \* peer -> lobbyFull
    nHandlers,             \* peer -> number of peer.on('connection') registrations
    claiming,              \* peer -> number of basePeer objects awaiting the directory
    basePeer,              \* peer -> state of the object the variable basePeer refers to
    holder,                \* peer holding BASE_PEER_ID, 0 = free
    joinTimers,            \* peer -> pending setTimeout(joinChain)
    baseTimers,            \* peer -> pending setTimeout(tryBecomeBase)
    conns,                 \* connections ever opened, in order of creation
    networkData,           \* peer -> packets posted to its main thread
    sent,                  \* the sender of each application packet sent so far
    errors,                \* connection errors reported so far
    drops,                 \* connections gone down so far
    chunkSize,             \* UnifiedTerrain.chunkSize
    chunkResolution,       \* UnifiedTerrain.chunkResolution
    renderDistance,        \* UnifiedTerrain.renderDistance
    terrainSeed,           \* UnifiedTerrain.terrainSeed
    seedSetBy,             \* the assignment terrainSeed has its value from
    hostSeed,              \* the seed of the last onHostSeedReceived call, -1: none yet
    terrainChunks,         \* the chunk Map, its entries in insertion order
    positions,             \* chunk key -> the heights in its mesh's position array
    wavePhase,             \* wavePhase, in units of waveSpeed
    rand,                  \* this.rand: the variable x of its seededRandom closure
    regenLerpActive,       \* _regenLerpActive
    regenLerpTime,         \* _regenLerpTime
    regenLerpDuration,     \* _regenLerpDuration
    regenSeed,             \* _regenSeed
    regenOldHeights,       \* _regenOldHeights, chunk key -> samples
    regenNewHeights,       \* _regenNewHeights, chunk key -> samples
    frame,                 \* number of update() calls so far
    lastCall,              \* how the last call on the generator ended
    lastPoint,             \* the reference point of the last update()
    released,              \* the chunks whose mesh the last update() disposed of
    twin,                  \* a second UnifiedTerrain, constructed on its own
    landRoll,              \* landCellRand() < 0.08 (line 221) in the land cell of the origin
    heightCalls,           \* the generateTerrainHeight calls made so far and their results
    streams,               \* the closures seededRandom has returned, with their draws
    hashCalls,             \* the hash2D calls made so far and their results
    globalTerrainSeed,     \* peer -> window.globalTerrainSeed, the seed of its generator
    globalOceanStartTime,  \* peer -> globalOceanStartTime, named by the peer that set it
    handled,               \* peer -> number of posted packets its main thread has handled
    trenchPass,            \* the trench pass of one generateTerrainHeight call: its locals, and the cells visited
    loop,                  \* the frame loop and the timers of one peer's game page: clock, lastNetworkUpdate, intervals, the last broadcasts
    handoff                \* the hand-off of one client's AI ships to the host: the client's attempts, the messages in flight, the host's pawns

vars == <<LOBBY_SIZE, started, isBase, lobbyConnectedPeers, lobbyPeerConnections,
          lobbyFull, nHandlers, claiming, basePeer, holder, joinTimers, baseTimers,
          conns, networkData, sent, errors, drops,
          chunkSize, chunkResolution, renderDistance, terrainSeed, seedSetBy, hostSeed, terrainChunks,
          positions, wavePhase, rand,
          regenLerpActive, regenLerpTime, regenLerpDuration, regenSeed,
          regenOldHeights, regenNewHeights, frame, lastCall, lastPoint, released,
          twin, landRoll, heightCalls, streams, hashCalls,
          globalTerrainSeed, globalOceanStartTime, handled, trenchPass, loop, handoff>>

geometryVars == <<chunkSize, chunkResolution, renderDistance>>

regenVars == <<regenLerpActive, regenLerpTime, regenLerpDuration, regenSeed,
               regenOldHeights, regenNewHeights>>

terrainVars == <<geometryVars, terrainSeed, seedSetBy, hostSeed, terrainChunks, positions,
                 wavePhase, rand, regenVars,
                 frame, lastCall, lastPoint, released>>

workerVars == <<LOBBY_SIZE, started, isBase, lobbyConnectedPeers, lobbyPeerConnections,
                lobbyFull, nHandlers, claiming, basePeer, holder, joinTimers, baseTimers,
                conns, networkData, sent, errors, drops>>

\* The calls made on the generator's functions from outside update().
callVars == <<twin, landRoll, heightCalls, streams, hashCalls>>

\* The game on each peer's main thread.
gameVars == <<globalTerrainSeed, globalOceanStartTime, handled>>

leaderVars == <<isBase, lobbyConnectedPeers, lobbyPeerConnections, lobbyFull>>

----------------------------------------------------------------------------
\* Helpers on sequences.

Range(s) == {s[i] : i \in 1..Len(s)}

\* Array.prototype.indexOf, 1-based; 0 when absent.
IndexOf(s, x) ==
    IF x \in Range(s) THEN CHOOSE i \in 1..Len(s) : s[i] = x /\ \A j \in 1..(i-1) : s[j] # x
    ELSE 0

\* splice(idx, 1) at the first occurrence of x, when there is one.
RemoveFirst(s, x) ==
    LET i == IndexOf(s, x)
    IN IF i = 0 THEN s ELSE [j \in 1..(Len(s)-1) |-> IF j < i THEN s[j] ELSE s[j+1]]

Dec(f, p) == [f EXCEPT ![p] = @ - 1]
Inc(f, p) == [f EXCEPT ![p] = @ + 1]

----------------------------------------------------------------------------
\* Messages of the protocol.

JoinMsg(p) == [type |-> "join", peerId |-> p]
JoinHostMsg(p) == [type |-> "join_host", peerId |-> p]
LobbyFullMsg == [type |-> "lobby_full"]
RedirectMsg(h, cur, tot) ==
    [type |-> "redirect_to_host", hostId |-> h, currentPlayers |-> cur, totalPlayers |-> tot]
WaitingMsg(cur, tot) == [type |-> "waiting", current |-> cur, total |-> tot]
HostReadyMsg(h, all) == [type |-> "host_ready", hostId |-> h, allPlayers |-> all]
Packet(t, p, n) == [type |-> t, peerId |-> p, n |-> n]

\* A data connection.  cl is the peer that called peer.connect, sv the peer
\* that got the 'connection' event (0: nobody answers).  nh is the number of
\* handler sets the serving peer attached to it.  ev follows the serving
\* side's 'close' event: "none", "pending" (open is already false, the
\* handler has not run), then what the handler logged: "removed" (line 176)
\* or "nomatch" (line 187).  lobbyPeers is connectToHost's local variable.
NewConn(k, c, s, n, first) ==
    [kind |-> k, cl |-> c, sv |-> s, toSv |-> first, toCl |-> <<>>,
     clOpen |-> s # 0, svOpen |-> s # 0, ev |-> "none", nh |-> n,
     lobbyPeers |-> <<>>, errored |-> FALSE]

Conn(c) == conns[c]
Live == 1..Len(conns)

\* conn.open as the serving peer reads it.
IsOpen(c) == conns[c].svOpen

----------------------------------------------------------------------------
\* tryBecomeBase(), lines 59-68 and 109: the variable basePeer is rebound to
\* a new claim (an earlier one still awaiting its answer stays in flight),
\* the role and the roster are reset before the directory answers, and one
\* more 'connection' handler is added.
TryBecomeBase(p) ==
    /\ basePeer' = [basePeer EXCEPT ![p] = "pending"]
    /\ isBase' = [isBase EXCEPT ![p] = TRUE]
    /\ lobbyConnectedPeers' = [lobbyConnectedPeers EXCEPT ![p] = <<p>>]
    /\ lobbyPeerConnections' = [lobbyPeerConnections EXCEPT ![p] = [q \in Peers |-> 0]]
    /\ lobbyFull' = [lobbyFull EXCEPT ![p] = FALSE]
    /\ claiming' = Inc(claiming, p)
    /\ nHandlers' = Inc(nHandlers, p)

\* onmessage 'init' and peer.on('open'), lines 37-51.
PeerOpen(p) ==
    /\ ~started[p]
    /\ started' = [started EXCEPT ![p] = TRUE]
    /\ TryBecomeBase(p)
    /\ UNCHANGED <<handoff, loop, trenchPass, terrainVars, callVars, gameVars, LOBBY_SIZE, holder, joinTimers, baseTimers, conns, networkData, sent, errors, drops>>

\* The claims of p in flight that the variable basePeer no longer refers to.
Rebound(p) == claiming[p] - (IF basePeer[p] = "pending" THEN 1 ELSE 0)

\* The claim whose event fires: the one basePeer refers to (own), or one
\* made before basePeer was rebound.
Answered(p, own) == IF own THEN basePeer[p] = "pending" ELSE Rebound(p) > 0

\* basePeer.on('open'), lines 70-74: the directory grants the free identity.
ClaimOpen(p) ==
    /\ claiming[p] > 0
    /\ holder = 0
    /\ holder' = p
    /\ claiming' = Dec(claiming, p)
    /\ \E own \in BOOLEAN :
          /\ Answered(p, own)
          /\ basePeer' = IF own THEN [basePeer EXCEPT ![p] = "open"] ELSE basePeer
    /\ UNCHANGED <<handoff, loop, trenchPass, terrainVars, callVars, gameVars, LOBBY_SIZE, started, leaderVars, nHandlers, joinTimers, baseTimers,
                   conns, networkData, sent, errors, drops>>

\* The body of the error handler, lines 99-105.  basePeer.destroy() acts on
\* the object the variable refers to now: the failed claim itself (own), or
\* else the claim made after it, which is withdrawn, in flight or granted.
ClaimFailure(p, own) ==
    /\ isBase' = [isBase EXCEPT ![p] = FALSE]
    /\ joinTimers' = Inc(joinTimers, p)
    /\ basePeer' = [basePeer EXCEPT ![p] = IF own THEN "released" ELSE "destroyed"]
    /\ claiming' = [claiming EXCEPT ![p] =
                        IF ~own /\ basePeer[p] = "pending" THEN @ - 2 ELSE @ - 1]
    /\ holder' = IF ~own /\ basePeer[p] = "open" THEN 0 ELSE holder

\* basePeer.on('error'), lines 98-106: the identity is taken.
ClaimError(p) ==
    /\ claiming[p] > 0
    /\ holder # 0
    /\ \E own \in BOOLEAN : Answered(p, own) /\ ClaimFailure(p, own)
    /\ UNCHANGED <<handoff, loop, trenchPass, terrainVars, callVars, gameVars, LOBBY_SIZE, started, lobbyConnectedPeers, lobbyPeerConnections, lobbyFull,
                   nHandlers, baseTimers, conns, networkData, sent, errors, drops>>

\* setTimeout(tryBecomeBase) firing, lines 213-215, 221-223, 250-252.
BaseTimer(p) ==
    /\ baseTimers[p] > 0
    /\ baseTimers' = Dec(baseTimers, p)
    /\ TryBecomeBase(p)
    /\ UNCHANGED <<handoff, loop, trenchPass, terrainVars, callVars, gameVars, LOBBY_SIZE, started, holder, joinTimers, conns, networkData, sent, errors, drops>>

\* joinChain(), lines 196-203: connect to the identity's holder and send join.
JoinChain(p) ==
    /\ joinTimers[p] > 0
    /\ Len(conns) < MaxConns
    /\ joinTimers' = Dec(joinTimers, p)
    /\ conns' = Append(conns,
                       NewConn("base", p, holder, 1,
                               IF holder # 0 THEN <<JoinMsg(p)>> ELSE <<>>))
    /\ UNCHANGED <<handoff, loop, trenchPass, terrainVars, callVars, gameVars, LOBBY_SIZE, started, leaderVars, nHandlers, claiming, basePeer, holder, baseTimers,
                   networkData, sent, errors, drops>>

\* Faulty variant: the capacity test reads the flag alone.
DiscoveryReply_FlagOnly(h) ==
    IF lobbyFull[h]
    THEN LobbyFullMsg
    ELSE RedirectMsg(h, Len(lobbyConnectedPeers[h]), LOBBY_SIZE)

\* The reply of the discovery handler, lines 76-89.
DiscoveryReply(h) ==
    IF lobbyFull[h] \/ Len(lobbyConnectedPeers[h]) >= LOBBY_SIZE
    THEN LobbyFullMsg
    ELSE RedirectMsg(h, Len(lobbyConnectedPeers[h]), LOBBY_SIZE)

\* basePeer.on('connection') -> conn.on('data'), lines 74-92: answer a
\* discovery join and close the connection.
Discovery(c) ==
    /\ c \in Live
    /\ Conn(c).kind = "base"
    /\ Conn(c).svOpen
    /\ Conn(c).toSv # <<>>
    /\ Head(Conn(c).toSv).type = "join"
    /\ conns' = [conns EXCEPT ![c] =
                    [@ EXCEPT !.toSv = Tail(@),
                              !.toCl = Append(@, DiscoveryReply(Conn(c).sv)),
                              !.svOpen = FALSE]]
    /\ UNCHANGED <<handoff, loop, trenchPass, terrainVars, callVars, gameVars, LOBBY_SIZE, started, leaderVars, nHandlers, claiming, basePeer, holder, joinTimers,
                   baseTimers, networkData, sent, errors, drops>>

\* baseConn.on('data') with redirect_to_host, lines 205-208, and
\* connectToHost(hostId), lines 227-233: close the discovery connection,
\* connect to the host and send join_host.
BaseRedirect(c) ==
    /\ c \in Live
    /\ Conn(c).kind = "base"
    /\ Conn(c).clOpen
    /\ Conn(c).toCl # <<>>
    /\ Head(Conn(c).toCl).type = "redirect_to_host"
    /\ Len(conns) < MaxConns
    /\ LET p == Conn(c).cl
           h == Head(Conn(c).toCl).hostId
       IN conns' = Append([conns EXCEPT ![c] = [@ EXCEPT !.toCl = <<>>, !.clOpen = FALSE]],
                          NewConn("host", p, h, nHandlers[h], <<JoinHostMsg(p)>>))
    /\ UNCHANGED <<handoff, loop, trenchPass, terrainVars, callVars, gameVars, LOBBY_SIZE, started, leaderVars, nHandlers, claiming, basePeer, holder, joinTimers,
                   baseTimers, networkData, sent, errors, drops>>

\* Faulty variant: the rejection schedules the new claim twice.
BaseLobbyFull_Twice(c) ==
    /\ c \in Live
    /\ Conn(c).kind = "base"
    /\ Conn(c).clOpen
    /\ Conn(c).toCl # <<>>
    /\ Head(Conn(c).toCl).type = "lobby_full"
    /\ conns' = [conns EXCEPT ![c] = [@ EXCEPT !.toCl = <<>>, !.clOpen = FALSE]]
    /\ baseTimers' = Inc(Inc(baseTimers, Conn(c).cl), Conn(c).cl)
    /\ UNCHANGED <<handoff, loop, trenchPass, terrainVars, callVars, gameVars, LOBBY_SIZE, started, leaderVars, nHandlers, claiming, basePeer, holder, joinTimers,
                   networkData, sent, errors, drops>>

\* baseConn.on('data') with lobby_full, lines 209-216.
BaseLobbyFull(c) ==
    /\ c \in Live
    /\ Conn(c).kind = "base"
    /\ Conn(c).clOpen
    /\ Conn(c).toCl # <<>>
    /\ Head(Conn(c).toCl).type = "lobby_full"
    /\ conns' = [conns EXCEPT ![c] = [@ EXCEPT !.toCl = <<>>, !.clOpen = FALSE]]
    /\ baseTimers' = Inc(baseTimers, Conn(c).cl)
    /\ UNCHANGED <<handoff, loop, trenchPass, terrainVars, callVars, gameVars, LOBBY_SIZE, started, leaderVars, nHandlers, claiming, basePeer, holder, joinTimers,
                   networkData, sent, errors, drops>>

\* baseConn.on('error'), lines 218-224: the environment reports an error on
\* a discovery connection still in use; the worker schedules a new claim.
BaseError(c) ==
    /\ c \in Live
    /\ Conn(c).kind = "base"
    /\ Conn(c).clOpen
    /\ ~Conn(c).errored
    /\ errors < MaxErrors
    /\ errors' = errors + 1
    /\ conns' = [conns EXCEPT ![c].errored = TRUE]
    /\ baseTimers' = Inc(baseTimers, Conn(c).cl)
    /\ UNCHANGED <<handoff, loop, trenchPass, terrainVars, callVars, gameVars, LOBBY_SIZE, started, leaderVars, nHandlers, claiming, basePeer, holder, joinTimers,
                   networkData, sent, drops>>

----------------------------------------------------------------------------
\* The handlers a peer attaches to each direct connection (lines 109-193),
\* as functions of the peer's lobby state L = [roster, table, full] and of
\* the messages sent so far, out, a sequence of <<connection, message>>.

Lobby(h) ==
    [roster |-> lobbyConnectedPeers[h], table |-> lobbyPeerConnections[h],
     full |-> lobbyFull[h], out |-> <<>>]

\* Faulty variant: the notification loop starts one member too late.
HostReadySends_SkipFirst(h, roster, table) ==
    LET idx == SelectSeq([i \in 1..Len(roster) |-> i],
                         LAMBDA i : i >= 3 /\ table[roster[i]] # 0)
    IN [k \in 1..Len(idx) |-> <<table[roster[idx[k]]], HostReadyMsg(h, roster)>>]

\* Lines 136-145: host_ready to the tracked connection of roster[1..] (0-based).
HostReadySends(h, roster, table) ==
    LET idx == SelectSeq([i \in 1..Len(roster) |-> i],
                         LAMBDA i : i >= 2 /\ table[roster[i]] # 0)
    IN [k \in 1..Len(idx) |-> <<table[roster[idx[k]]], HostReadyMsg(h, roster)>>]

\* Lines 123-149, after the duplicate check.
JoinHostAccept(h, L, c, id) ==
    LET table == IF L.table[id] = 0 \/ ~IsOpen(L.table[id])
                 THEN [L.table EXCEPT ![id] = c]
                 ELSE L.table
    IN IF Len(L.roster) = LOBBY_SIZE
       THEN [L EXCEPT !.table = table, !.full = TRUE,
                      !.out = @ \o HostReadySends(h, L.roster, table)]
       ELSE [L EXCEPT !.table = table,
                      !.out = Append(@, <<c, WaitingMsg(Len(L.roster), LOBBY_SIZE)>>)]

\* Faulty variant: no duplicate check, the last connection to join is the tracked one.
JoinHostHandler_LastWins(h, L, c, id) ==
    JoinHostAccept(h,
                   [L EXCEPT !.roster = IF id \in Range(@) THEN @ ELSE Append(@, id),
                             !.table = [@ EXCEPT ![id] = 0]],
                   c, id)

\* Faulty variant: a new identity is put in front of the roster.
JoinHostHandler_Unshift(h, L, c, id) ==
    IF id \in Range(L.roster)
    THEN IF L.table[id] # 0 /\ L.table[id] # c /\ IsOpen(L.table[id])
         THEN [L EXCEPT !.out = Append(@, <<c, WaitingMsg(Len(L.roster), LOBBY_SIZE)>>)]
         ELSE JoinHostAccept(h, L, c, id)
    ELSE JoinHostAccept(h, [L EXCEPT !.roster = <<id>> \o @], c, id)

\* Lines 111-149: one run of the join_host branch.
JoinHostHandler(h, L, c, id) ==
    IF id \in Range(L.roster)
    THEN IF L.table[id] # 0 /\ L.table[id] # c /\ IsOpen(L.table[id])
         THEN [L EXCEPT !.out = Append(@, <<c, WaitingMsg(Len(L.roster), LOBBY_SIZE)>>)]
         ELSE JoinHostAccept(h, L, c, id)
    ELSE JoinHostAccept(h, [L EXCEPT !.roster = Append(@, id)], c, id)

\* Lines 150-159: one run of the relay branch; the sender is named by the
\* packet's peerId field.
RelayTargets(L, data) ==
    {q \in Peers : q # data.peerId /\ L.table[q] # 0 /\ IsOpen(L.table[q])}

RelayHandler(h, L, c, data) ==
    LET tg == RelayTargets(L, data)
        ord == SelectSeq([q \in 1..NumPeers |-> q], LAMBDA q : q \in tg)
    IN [L EXCEPT !.out = @ \o [k \in 1..Len(ord) |-> <<L.table[ord[k]], data>>]]

\* Lines 163-169: the identity whose tracked connection is c, 0 when none.
TrackedId(L, c) ==
    IF \E q \in Peers : L.table[q] = c
    THEN CHOOSE q \in Peers : L.table[q] = c /\ \A r \in Peers : L.table[r] = c => q <= r
    ELSE 0

\* Faulty variant: the closing connection's peer is removed whichever connection is tracked.
CloseHandler_ByIdentity(h, L, c) ==
    LET id == conns[c].cl
    IN [L EXCEPT !.roster = RemoveFirst(@, id),
                 !.table = [@ EXCEPT ![id] = 0],
                 !.full = FALSE]

\* Faulty variant: a departure leaves the full flag as it was.
CloseHandler_KeepFull(h, L, c) ==
    LET id == TrackedId(L, c)
    IN IF id # 0
       THEN [L EXCEPT !.roster = RemoveFirst(@, id),
                      !.table = [@ EXCEPT ![id] = 0]]
       ELSE L

\* Faulty variant: a departure leaves the table entry behind.
CloseHandler_KeepTable(h, L, c) ==
    LET id == TrackedId(L, c)
    IN IF id # 0
       THEN [L EXCEPT !.roster = RemoveFirst(@, id), !.full = FALSE]
       ELSE L

\* Lines 161-189: one run of the close handler.
CloseHandler(h, L, c) ==
    LET id == TrackedId(L, c)
    IN IF id # 0
       THEN [L EXCEPT !.roster = RemoveFirst(@, id),
                      !.table = [@ EXCEPT ![id] = 0],
                      !.full = FALSE]
       ELSE L

\* An event runs every handler set attached to the connection, in turn.
RECURSIVE JoinHostRuns(_, _, _, _, _)
JoinHostRuns(n, h, L, c, id) ==
    IF n = 0 THEN L ELSE JoinHostRuns(n - 1, h, JoinHostHandler(h, L, c, id), c, id)

RECURSIVE RelayRuns(_, _, _, _, _)
RelayRuns(n, h, L, c, data) ==
    IF n = 0 THEN L ELSE RelayRuns(n - 1, h, RelayHandler(h, L, c, data), c, data)

RECURSIVE CloseRuns(_, _, _, _)
CloseRuns(n, h, L, c) ==
    IF n = 0 THEN L ELSE CloseRuns(n - 1, h, CloseHandler(h, L, c), c)

RECURSIVE Copies(_, _)
Copies(n, x) == IF n = 0 THEN <<>> ELSE <<x>> \o Copies(n - 1, x)

\* The messages of out addressed to connection k, in order.
SentTo(out, k) ==
    LET mine == SelectSeq(out, LAMBDA e : e[1] = k)
    IN [i \in 1..Len(mine) |-> mine[i][2]]

\* Faulty variant: what is sent overtakes what is still queued.
Deliver_Lifo(cs, out) ==
    [k \in 1..Len(cs) |->
        IF cs[k].svOpen THEN [cs[k] EXCEPT !.toCl = SentTo(out, k) \o @] ELSE cs[k]]

\* conn.send on the serving side: queued when the connection is open.
Deliver(cs, out) ==
    [k \in 1..Len(cs) |->
        IF cs[k].svOpen THEN [cs[k] EXCEPT !.toCl = @ \o SentTo(out, k)] ELSE cs[k]]

\* The peer's lobby variables after its handlers ran.
Commit(h, L) ==
    /\ lobbyConnectedPeers' = [lobbyConnectedPeers EXCEPT ![h] = L.roster]
    /\ lobbyPeerConnections' = [lobbyPeerConnections EXCEPT ![h] = L.table]
    /\ lobbyFull' = [lobbyFull EXCEPT ![h] = L.full]

\* peer.on('connection') -> conn.on('data') with join_host, lines 110-149.
HostJoin(c) ==
    /\ c \in Live
    /\ Conn(c).kind = "host"
    /\ Conn(c).svOpen
    /\ Conn(c).toSv # <<>>
    /\ Head(Conn(c).toSv).type = "join_host"
    /\ LET h == Conn(c).sv
           L == JoinHostRuns(Conn(c).nh, h, Lobby(h), c, Head(Conn(c).toSv).peerId)
       IN /\ Commit(h, L)
          /\ conns' = Deliver([conns EXCEPT ![c].toSv = Tail(@)], L.out)
    /\ UNCHANGED <<handoff, loop, trenchPass, terrainVars, callVars, gameVars, LOBBY_SIZE, started, isBase, nHandlers, claiming, basePeer, holder, joinTimers,
                   baseTimers, networkData, sent, errors, drops>>

\* conn.on('data') with message or player_state, lines 150-159.
HostRelay(c) ==
    /\ c \in Live
    /\ Conn(c).kind = "host"
    /\ Conn(c).svOpen
    /\ Conn(c).toSv # <<>>
    /\ Head(Conn(c).toSv).type \in PacketTypes
    /\ LET h == Conn(c).sv
           data == Head(Conn(c).toSv)
           L == RelayRuns(Conn(c).nh, h, Lobby(h), c, data)
       IN /\ conns' = Deliver([conns EXCEPT ![c].toSv = Tail(@)], L.out)
          /\ networkData' = [networkData EXCEPT ![h] = @ \o Copies(Conn(c).nh, data)]
    /\ UNCHANGED <<handoff, loop, trenchPass, terrainVars, callVars, gameVars, LOBBY_SIZE, started, leaderVars, nHandlers, claiming, basePeer, holder, joinTimers,
                   baseTimers, sent, errors, drops>>

\* conn.on('close') on the serving side, lines 161-189.
CloseEvent(c) ==
    /\ c \in Live
    /\ Conn(c).kind = "host"
    /\ Conn(c).ev = "pending"
    /\ LET h == Conn(c).sv
           L == CloseRuns(Conn(c).nh, h, Lobby(h), c)
       IN /\ Commit(h, L)
          /\ conns' = [conns EXCEPT ![c].ev =
                           IF TrackedId(Lobby(h), c) # 0 THEN "removed" ELSE "nomatch"]
    /\ UNCHANGED <<handoff, loop, trenchPass, terrainVars, callVars, gameVars, LOBBY_SIZE, started, isBase, nHandlers, claiming, basePeer, holder, joinTimers,
                   baseTimers, networkData, sent, errors, drops>>

\* hostConn.on('data'), lines 235-257.  lobby_full (lines 246-252) closes the
\* connection and schedules a new claim.
ClientData(c) ==
    /\ c \in Live
    /\ Conn(c).kind = "host"
    /\ Conn(c).clOpen
    /\ Conn(c).toCl # <<>>
    /\ LET data == Head(Conn(c).toCl)
           p == Conn(c).cl
       IN CASE data.type = "host_ready" ->
                 /\ conns' = [conns EXCEPT ![c] =
                                 [@ EXCEPT !.toCl = Tail(@), !.lobbyPeers = data.allPlayers]]
                 /\ UNCHANGED <<baseTimers, networkData>>
            [] data.type = "lobby_full" ->
                 /\ conns' = [conns EXCEPT ![c] = [@ EXCEPT !.toCl = <<>>, !.clOpen = FALSE]]
                 /\ baseTimers' = Inc(baseTimers, p)
                 /\ UNCHANGED networkData
            [] data.type \in PacketTypes ->
                 /\ conns' = [conns EXCEPT ![c].toCl = Tail(@)]
                 /\ networkData' = [networkData EXCEPT ![p] = Append(@, data)]
                 /\ UNCHANGED baseTimers
            [] OTHER ->
                 /\ conns' = [conns EXCEPT ![c].toCl = Tail(@)]
                 /\ UNCHANGED <<baseTimers, networkData>>
    /\ UNCHANGED <<handoff, loop, trenchPass, terrainVars, callVars, gameVars, LOBBY_SIZE, started, leaderVars, nHandlers, claiming, basePeer, holder, joinTimers,
                   sent, errors, drops>>

----------------------------------------------------------------------------
\* The environment.

\* A member's main thread hands an application packet to its connection to
\* the host.  The payload is opaque to the worker: t and id are whatever the
\* sender wrote into it.
SendPacket(c, t, id) ==
    /\ c \in Live
    /\ Conn(c).kind = "host"
    /\ Conn(c).clOpen
    /\ Len(sent) < MaxPackets
    /\ sent' = Append(sent, Conn(c).cl)
    /\ conns' = [conns EXCEPT ![c].toSv = Append(@, Packet(t, id, Len(sent) + 1))]
    /\ UNCHANGED <<handoff, loop, trenchPass, terrainVars, callVars, gameVars, LOBBY_SIZE, started, leaderVars, nHandlers, claiming, basePeer, holder, joinTimers,
                   baseTimers, networkData, errors, drops>>

\* hostConn.on('error'), lines 258-261: the environment reports an error on a
\* host connection; the worker posts a status line and a log line, nothing else.
HostError(c) ==
    /\ c \in Live
    /\ Conn(c).kind = "host"
    /\ Conn(c).clOpen
    /\ ~Conn(c).errored
    /\ errors < MaxErrors
    /\ errors' = errors + 1
    /\ conns' = [conns EXCEPT ![c].errored = TRUE]
    /\ UNCHANGED <<handoff, loop, trenchPass, terrainVars, callVars, gameVars, LOBBY_SIZE, started, leaderVars, nHandlers, claiming, basePeer, holder, joinTimers,
                   baseTimers, networkData, sent, drops>>

\* A direct connection goes down: both ends read open = false, what was in
\* flight is lost, and the serving peer's 'close' event is still to be handled.
ConnDrop(c) ==
    /\ c \in Live
    /\ Conn(c).kind = "host"
    /\ Conn(c).clOpen
    /\ Conn(c).svOpen
    /\ drops < MaxDrops
    /\ drops' = drops + 1
    /\ conns' = [conns EXCEPT ![c] =
                    [@ EXCEPT !.clOpen = FALSE, !.svOpen = FALSE, !.ev = "pending",
                              !.toSv = <<>>, !.toCl = <<>>]]
    /\ UNCHANGED <<handoff, loop, trenchPass, terrainVars, callVars, gameVars, LOBBY_SIZE, started, leaderVars, nHandlers, claiming, basePeer, holder, joinTimers,
                   baseTimers, networkData, sent, errors>>

\* The page of the peer that holds the rendezvous identity is closed: its
\* worker ends, its connections go down, and the directory frees the
\* identity, which the next claim (line 60) is granted.
HolderLeaves ==
    /\ holder # 0
    /\ holder' = 0
    /\ isBase' = [isBase EXCEPT ![holder] = FALSE]
    /\ lobbyConnectedPeers' = [lobbyConnectedPeers EXCEPT ![holder] = <<>>]
    /\ lobbyPeerConnections' = [lobbyPeerConnections EXCEPT ![holder] = [q \in Peers |-> 0]]
    /\ lobbyFull' = [lobbyFull EXCEPT ![holder] = FALSE]
    /\ nHandlers' = [nHandlers EXCEPT ![holder] = 0]
    /\ claiming' = [claiming EXCEPT ![holder] = 0]
    /\ basePeer' = [basePeer EXCEPT ![holder] = "destroyed"]
    /\ joinTimers' = [joinTimers EXCEPT ![holder] = 0]
    /\ baseTimers' = [baseTimers EXCEPT ![holder] = 0]
    /\ conns' = [k \in 1..Len(conns) |->
                    IF conns[k].sv = holder \/ conns[k].cl = holder
                    THEN [conns[k] EXCEPT !.clOpen = FALSE, !.svOpen = FALSE,
                                          !.toSv = <<>>, !.toCl = <<>>,
                                          !.ev = IF /\ conns[k].cl = holder
                                                    /\ conns[k].kind = "host"
                                                    /\ conns[k].svOpen
                                                 THEN "pending" ELSE @]
                    ELSE conns[k]]
    /\ UNCHANGED <<handoff, loop, trenchPass, terrainVars, callVars, gameVars, LOBBY_SIZE, started,
                   networkData, sent, errors, drops>>

----------------------------------------------------------------------------
(***************************************************************************)
(* The chunk cache of src/unifiedTerrain.js.                               *)
(*                                                                         *)
(* A chunk key is the pair <<chunkX, chunkZ>>.  The Map terrainChunks is    *)
(* the sequence of its entries in insertion order, which is the order its  *)
(* iterators follow.  A height sample is kept as the arguments it was      *)
(* computed from: the generating function, the seed and the vertex's       *)
(* world position, the latter multiplied by 2 * chunkResolution so that it *)
(* is an integer.  A mesh is "live" (in the scene), "disposed" or "null".  *)
(***************************************************************************)

\* hash2D works on JavaScript numbers that hold integers of up to 62 bits.
\* Such a number is kept as its sign and the 64 bits of its magnitude, lowest
\* bit first; a 32-bit word is a sequence of 32 bits, lowest first, in two's
\* complement.  Products are formed on limbs of 14 bits.

\* The number with the integer value n, -2^31 < n < 2^31.
Integer(n) ==
    LET m == IF n < 0 THEN 0 - n ELSE n
    IN [neg |-> n < 0,
        mag |-> [i \in 1..64 |-> IF i <= 31 THEN (m \div (2 ^ (i - 1))) % 2 ELSE 0]]

\* Limb k (from 0) of a magnitude.
Limb(mag, k) ==
    LET bit(i) == mag[14 * k + i]
    IN bit(1) + 2 * bit(2) + 4 * bit(3) + 8 * bit(4) + 16 * bit(5) + 32 * bit(6)
        + 64 * bit(7) + 128 * bit(8) + 256 * bit(9) + 512 * bit(10) + 1024 * bit(11)
        + 2048 * bit(12) + 4096 * bit(13) + 8192 * bit(14)

\* The exact product of two magnitudes below 2^42, as bits.
MulBits(a, b) ==
    LET base == 16384
        p0 == Limb(a, 0) * Limb(b, 0)
        p1 == Limb(a, 0) * Limb(b, 1) + Limb(a, 1) * Limb(b, 0) + (p0 \div base)
        p2 == Limb(a, 0) * Limb(b, 2) + Limb(a, 1) * Limb(b, 1) + Limb(a, 2) * Limb(b, 0)
                + (p1 \div base)
        p3 == Limb(a, 1) * Limb(b, 2) + Limb(a, 2) * Limb(b, 1) + (p2 \div base)
        p4 == Limb(a, 2) * Limb(b, 2) + (p3 \div base)
        limbs == <<p0 % base, p1 % base, p2 % base, p3 % base, p4>>
    IN [i \in 1..64 |-> (limbs[((i - 1) \div 14) + 1] \div (2 ^ ((i - 1) % 14))) % 2]

\* The nearest double to an integer: 53 significant bits, ties to even.
RoundToDouble(mag) ==
    LET ones == {i \in 1..64 : mag[i] = 1}
        len == IF ones = {} THEN 0 ELSE CHOOSE i \in ones : \A j \in ones : j <= i
        drop == len - 53
    IN IF drop <= 0 THEN mag
       ELSE LET half == mag[drop] = 1
                more == \E i \in 1..(drop - 1) : mag[i] = 1
                up == half /\ (more \/ mag[drop + 1] = 1)
                zeros == {i \in (drop + 1)..64 : mag[i] = 0}
                stop == CHOOSE i \in zeros : \A j \in zeros : i <= j
            IN [i \in 1..64 |->
                   IF i <= drop THEN 0
                   ELSE IF ~up THEN mag[i]
                   ELSE IF i < stop THEN 0
                   ELSE IF i = stop THEN 1
                   ELSE mag[i]]

\* a * b on numbers (the sign of a zero is dropped).
Times(a, b) ==
    LET mag == RoundToDouble(MulBits(a.mag, b.mag))
    IN [neg |-> a.neg # b.neg /\ \E i \in 1..64 : mag[i] = 1, mag |-> mag]

\* The word -w.
Negate32(w) ==
    LET ones == {i \in 1..32 : w[i] = 1}
        first == IF ones = {} THEN 33 ELSE CHOOSE i \in ones : \A j \in ones : i <= j
    IN [i \in 1..32 |-> IF i <= first THEN w[i] ELSE 1 - w[i]]

\* ToInt32: the number modulo 2^32, as a word.
ToInt32(a) ==
    LET low == [i \in 1..32 |-> a.mag[i]]
    IN IF a.neg THEN Negate32(low) ELSE low

\* u ^ v and w >> k on words.
Xor32(u, v) == [i \in 1..32 |-> (u[i] + v[i]) % 2]

ShiftRight32(w, k) == [i \in 1..32 |-> IF i + k <= 32 THEN w[i + k] ELSE w[32]]

\* The number a word stands for, as the result of ^ or >> (signed) and as
\* the result of >>> 0 (unsigned).
Int32Value(w) ==
    LET m == IF w[32] = 1 THEN Negate32(w) ELSE w
    IN [neg |-> w[32] = 1, mag |-> [i \in 1..64 |-> IF i <= 32 THEN m[i] ELSE 0]]

Uint32Value(w) == [neg |-> FALSE, mag |-> [i \in 1..64 |-> IF i <= 32 THEN w[i] ELSE 0]]

\* The word h ^ (h >> k), lines 9 and 10.
XorShift(h, k) == Xor32(h, ShiftRight32(h, k))

\* Faulty variant: the product of line 9 is returned as it is.
Hash2D_Product(seed, x, z) ==
    LET h1 == Xor32(Xor32(ToInt32(Integer(seed)),
                          ToInt32(Times(Integer(x), Integer(374761393)))),
                    ToInt32(Times(Integer(z), Integer(668265263))))
    IN Times(Int32Value(XorShift(h1, 13)), Integer(1274126177))

\* hash2D(seed, x, z), lines 6-12.
Hash2D(seed, x, z) ==
    LET h1 == Xor32(Xor32(ToInt32(Integer(seed)),
                          ToInt32(Times(Integer(x), Integer(374761393)))),
                    ToInt32(Times(Integer(z), Integer(668265263))))
        h2 == Times(Int32Value(XorShift(h1, 13)), Integer(1274126177))
    IN Uint32Value(XorShift(ToInt32(h2), 16))

\* The numbers seededRandom computes with, kept as terms: an integer, or
\* a function applied to a number.
Num(v) == [op |-> "integer", v |-> v]

\* Math.sin(x) * 10000.  Math.sin(0) is 0; the sine of no other finite
\* number is 0.
SinTimes10000(x) ==
    IF x = Num(0) THEN Num(0) ELSE [op |-> "Math.sin(x) * 10000", x |-> x]

\* x - Math.floor(x), which is 0 for an integer.
FractionalPart(x) ==
    IF x.op = "integer" THEN Num(0) ELSE [op |-> "x - Math.floor(x)", x |-> x]

\* seededRandom(seed): the variable x of the closure it returns.
SeededRandom(seed) == SinTimes10000(Num(seed))

\* Math.ceil(a / b) for a >= 0, b > 0.
CeilDiv(a, b) == (a + b - 1) \div b

\* The keys of the Map, and its entry for key k.
ChunkKeys(chunks) == {chunks[i].key : i \in 1..Len(chunks)}

ChunkAt(chunks, k) == chunks[CHOOSE i \in 1..Len(chunks) : chunks[i].key = k]

\* Faulty variant: consecutive chunks are laid out one unit apart.
VertexAt_Gapped(k, n) ==
    LET x == (n - 1) % (chunkResolution + 1)
        z == (n - 1) \div (chunkResolution + 1)
    IN <<2 * chunkResolution * k[1] * (chunkSize + 1) + 2 * x * chunkSize
            - chunkResolution * chunkSize,
         2 * chunkResolution * k[2] * (chunkSize + 1) + 2 * z * chunkSize
            - chunkResolution * chunkSize>>

\* The world position of vertex n (row by row, lines 109-118) of chunk k,
\* times 2 * chunkResolution.
VertexAt(k, n) ==
    LET x == (n - 1) % (chunkResolution + 1)
        z == (n - 1) \div (chunkResolution + 1)
    IN <<2 * chunkResolution * k[1] * chunkSize + 2 * x * chunkSize
            - chunkResolution * chunkSize,
         2 * chunkResolution * k[2] * chunkSize + 2 * z * chunkSize
            - chunkResolution * chunkSize>>

\* A seed that was never given: undefined.
NoSeed == 0 - 1

\* !this.terrainSeed, lines 100 and 236.
Falsy(seed) == seed = 0 \/ seed = NoSeed

\* Faulty variant: a land mass is returned before the seed is looked at.
GenerateTerrainHeight_LandFirst(seed, at, roll) ==
    LET landMassHeight == [by |-> "landMassHeight", seed |-> seed, at |-> at]
    IN IF roll THEN landMassHeight
       ELSE IF Falsy(seed) THEN Num(0)
       ELSE [by |-> "generateTerrainHeight", seed |-> seed, at |-> at]

\* generateTerrainHeight(x, z), lines 205-771, with this.terrainSeed = seed
\* and at = <<x, z>>.  The land mass block (lines 206-234) comes first and
\* only prepares values; roll is the outcome of its test landCellRand() < 0.08
\* for a point within landMassSize of the cell's centre.  With a seed the
\* result is kept as the arguments it is computed from.
GenerateTerrainHeight(seed, at, roll) ==
    LET landMassHeight == IF roll THEN [by |-> "landMassHeight", seed |-> seed, at |-> at]
                          ELSE Num(0)
    IN IF Falsy(seed) THEN Num(0)
       ELSE [by |-> "generateTerrainHeight", seed |-> seed, at |-> at]

\* The samples generateTerrainHeight gives chunk k under seed (lines 109-116, 201).
ChunkHeights(seed, k) ==
    [n \in 1..((chunkResolution + 1) * (chunkResolution + 1)) |->
        GenerateTerrainHeight(seed, VertexAt(k, n), landRoll)]

\* createTerrainChunk(chunkX, chunkZ), lines 89-203; born is the update()
\* call that made the object.
CreateTerrainChunk(seed, k, born) ==
    IF Falsy(seed)
    THEN [key |-> k, born |-> born, mesh |-> "null", originalHeights |-> <<>>]
    ELSE [key |-> k, born |-> born, mesh |-> "live",
          originalHeights |-> ChunkHeights(seed, k)]

\* The offsets <<dx, dz>> of the two nested loops, lines 972-973, in loop order.
LoopOffsets(rad) ==
    [n \in 1..((2 * rad + 1) * (2 * rad + 1)) |->
        <<((n - 1) \div (2 * rad + 1)) - rad, ((n - 1) % (2 * rad + 1)) - rad>>]

\* Faulty variant: the distance test is strict.
WithinRenderDistance_Strict(d) ==
    (d[1] * d[1] + d[2] * d[2]) * chunkSize * chunkSize < renderDistance * renderDistance

\* Line 976-978: Math.sqrt(dx * dx + dz * dz) * chunkSize <= renderDistance,
\* both sides squared.
WithinRenderDistance(d) ==
    (d[1] * d[1] + d[2] * d[2]) * chunkSize * chunkSize <= renderDistance * renderDistance

\* Lines 965-981: the required keys around reference point pt, in loop order.
RequiredChunks(pt) ==
    LET playerChunkX == pt[1] \div chunkSize
        playerChunkZ == pt[2] \div chunkSize
        chunkRadius == CeilDiv(renderDistance, chunkSize)
        near == SelectSeq(LoopOffsets(chunkRadius), WithinRenderDistance)
    IN [n \in 1..Len(near) |-> <<playerChunkX + near[n][1], playerChunkZ + near[n][2]>>]

\* Faulty variant: every required chunk is built again.
CreateMissing_Rebuild(chunks, req, seed, born) ==
    LET kept == SelectSeq(chunks, LAMBDA ch : ch.key \notin Range(req))
    IN kept \o [n \in 1..Len(req) |-> CreateTerrainChunk(seed, req[n], born)]

\* Lines 983-987: the missing required chunks are created and inserted.
CreateMissing(chunks, req, seed, born) ==
    LET missing == SelectSeq(req, LAMBDA k : k \notin ChunkKeys(chunks))
    IN chunks \o [n \in 1..Len(missing) |-> CreateTerrainChunk(seed, missing[n], born)]

\* Lines 991-1000: the first entry whose disposal raises a TypeError
\* (chunk.mesh is null), 0 when there is none.
FirstUndisposable(chunks, req) ==
    LET bad == {i \in 1..Len(chunks) :
                   chunks[i].key \notin Range(req) /\ chunks[i].mesh = "null"}
    IN IF bad = {} THEN 0 ELSE CHOOSE i \in bad : \A j \in bad : i <= j

\* Lines 991-1004: the entries the removal loop reaches before it ends or raises.
Disposed(chunks, req) ==
    LET stop == FirstUndisposable(chunks, req)
    IN {i \in 1..Len(chunks) :
           chunks[i].key \notin Range(req) /\ (stop = 0 \/ i < stop)}

\* updateTerrainChunks(playerPosition), lines 963-1005.
UpdateTerrainChunks(chunks, pt, seed, born) ==
    LET req == RequiredChunks(pt)
        made == CreateMissing(chunks, req, seed, born)
        gone == Disposed(made, req)
    IN IF FirstUndisposable(made, req) = 0
       THEN [chunks |-> SelectSeq(made, LAMBDA ch : ch.key \in Range(req)),
             released |-> {<<made[i].key, made[i].born>> : i \in gone},
             raised |-> FALSE]
       ELSE [chunks |-> [i \in 1..Len(made) |->
                            IF i \in gone THEN [made[i] EXCEPT !.mesh = "disposed"]
                            ELSE made[i]],
             released |-> {<<made[i].key, made[i].born>> : i \in gone},
             raised |-> TRUE]

\* The first chunk of the Map that has no mesh, 0 when every chunk has one.
FirstMeshless(chunks) ==
    LET bad == {i \in 1..Len(chunks) : chunks[i].mesh = "null"}
    IN IF bad = {} THEN 0 ELSE CHOOSE i \in bad : \A j \in bad : i <= j

\* Lines 825-830: the samples generateTerrainHeightWithSeed gives the
\* vertices of chunk k under newSeed.
NewHeights(chunks, newSeed, k) ==
    [n \in 1..Len(ChunkAt(chunks, k).originalHeights) |->
        [by |-> "generateTerrainHeightWithSeed", seed |-> newSeed, at |-> VertexAt(k, n)]]

\* regenerateTerrain(newSeed, duration), lines 816-836, on a cache whose
\* chunks all have a mesh.
RegenerateTerrain(chunks, newSeed, duration) ==
    /\ regenOldHeights' = [k \in ChunkKeys(chunks) |-> ChunkAt(chunks, k).originalHeights]
    /\ regenNewHeights' = [k \in ChunkKeys(chunks) |-> NewHeights(chunks, newSeed, k)]
    /\ regenSeed' = newSeed
    /\ regenLerpTime' = 0
    /\ regenLerpDuration' = duration
    /\ regenLerpActive' = TRUE

\* A call of regenerateTerrain(newSeed, duration), lines 816-836.  At the
\* first chunk without a mesh, chunk.mesh.geometry (line 824) raises a
\* TypeError: the old samples are stored up to that chunk, the new ones up
\* to the chunk before it, and lines 832-835 are not reached.
Regenerate(newSeed, duration) ==
    LET stop == FirstMeshless(terrainChunks)
    IN /\ IF stop = 0
          THEN /\ RegenerateTerrain(terrainChunks, newSeed, duration)
               /\ lastCall' = "regenerating"
          ELSE /\ regenOldHeights' =
                      [k \in {terrainChunks[i].key : i \in 1..stop} |->
                          ChunkAt(terrainChunks, k).originalHeights]
               /\ regenNewHeights' =
                      [k \in {terrainChunks[i].key : i \in 1..(stop - 1)} |->
                          NewHeights(terrainChunks, newSeed, k)]
               /\ lastCall' = "TypeError"
               /\ UNCHANGED <<regenLerpActive, regenLerpTime, regenLerpDuration, regenSeed>>
       /\ released' = {}
       /\ UNCHANGED <<handoff, loop, trenchPass, workerVars, callVars, gameVars, geometryVars, terrainSeed, seedSetBy, rand, hostSeed,
                      terrainChunks, positions, wavePhase, frame, lastPoint>>

\* Faulty variant: a seed given to an empty cache is dropped.
SetTerrainSeedAndRegenerate_Dropped(seed, duration) ==
    LET cleared == <<>>
    IN /\ hostSeed' = seed
       /\ terrainChunks' = cleared
       /\ positions' = <<>>
       /\ IF terrainChunks = <<>>
          THEN UNCHANGED <<terrainSeed, seedSetBy, rand>>
          ELSE /\ terrainSeed' = seed
               /\ seedSetBy' = "setTerrainSeedAndRegenerate"
               /\ rand' = SeededRandom(seed)
       /\ UNCHANGED regenVars
       /\ lastCall' = "seeded"
       /\ released' = {}
       /\ UNCHANGED <<handoff, loop, trenchPass, workerVars, callVars, gameVars, geometryVars, wavePhase, frame, lastPoint>>

\* setTerrainSeedAndRegenerate(seed, duration), lines 63-83, which is also
\* onHostSeedReceived, lines 16-19: the Map is cleared first, then its size
\* decides whether regenerateTerrain runs.
SetTerrainSeedAndRegenerate(seed, duration) ==
    LET cleared == <<>>
    IN /\ hostSeed' = seed
       /\ terrainChunks' = cleared
       /\ positions' = <<>>
       /\ terrainSeed' = seed
       /\ rand' = SeededRandom(seed)
       /\ seedSetBy' = "setTerrainSeedAndRegenerate"
       /\ IF Len(cleared) > 0
          THEN RegenerateTerrain(cleared, seed, duration)
          ELSE UNCHANGED regenVars
       /\ lastCall' = "seeded"
       /\ released' = {}
       /\ UNCHANGED <<handoff, loop, trenchPass, workerVars, callVars, gameVars, geometryVars, wavePhase, frame, lastPoint>>

\* The position arrays once updateTerrainChunks is through: one for every
\* chunk of the Map that has a mesh; the array of a chunk just created holds
\* its samples (lines 116-118, 177).  The position arrays are Float32Arrays;
\* heights are kept as real numbers, without their rounding.
MeshHeights(chunks, pos) ==
    [k \in {chunks[i].key : i \in {j \in 1..Len(chunks) : chunks[j].mesh # "null"}} |->
        IF k \in DOMAIN pos THEN pos[k] ELSE ChunkAt(chunks, k).originalHeights]

\* animateTerrainChunks(), lines 1007-1035: every vertex of every chunk that
\* has a mesh is put at its baseline plus the wave of the current phase.
AnimateTerrainChunks(chunks, pos, phase) ==
    [k \in DOMAIN pos |->
        [n \in 1..Len(pos[k]) |->
            [by |-> "wave", base |-> ChunkAt(chunks, k).originalHeights[n],
             phase |-> phase]]]

\* Line 790: t = Math.min(1, _regenLerpTime / _regenLerpDuration) as the
\* fraction <<numerator, denominator>>.  x / 0 is Infinity for x > 0, and
\* 0 / 0 is NaN, written <<0, 0>>.
LerpT(time, duration) ==
    IF duration = 0 THEN (IF time > 0 THEN <<1, 1>> ELSE <<0, 0>>)
    ELSE IF time >= duration THEN <<1, 1>>
    ELSE <<time, duration>>

\* Line 796: oldH + (newH - oldH) * t, in real arithmetic over the samples.
LerpHeight(oldH, newH, t) ==
    IF t[2] = 0 THEN [by |-> "NaN", old |-> oldH, new |-> newH, t |-> t]
    ELSE IF t[1] = 0 \/ oldH = newH THEN oldH
    ELSE IF t[1] = t[2] THEN newH
    ELSE [by |-> "lerp", old |-> oldH, new |-> newH, t |-> t]

\* Lines 791-797: the first chunk at which the interpolation loop raises a
\* TypeError, 0 when there is none: a chunk without a mesh, or one with
\* samples of its own and none stored for its key in the transition.
FirstLerpRaise(chunks) ==
    LET bad == {i \in 1..Len(chunks) :
                   \/ chunks[i].mesh = "null"
                   \/ /\ chunks[i].originalHeights # <<>>
                      /\ \/ chunks[i].key \notin DOMAIN regenOldHeights
                         \/ chunks[i].key \notin DOMAIN regenNewHeights}
    IN IF bad = {} THEN 0 ELSE CHOOSE i \in bad : \A j \in bad : i <= j

LerpRaises(chunks) == FirstLerpRaise(chunks) # 0

\* Lines 791-799: the position arrays after the interpolation loop, which
\* writes the chunks of the Map in order until it ends or raises.
LerpPositions(chunks, pos, t) ==
    LET stop == FirstLerpRaise(chunks)
        index(k) == CHOOSE i \in 1..Len(chunks) : chunks[i].key = k
    IN [k \in DOMAIN pos |->
           IF stop = 0 \/ index(k) < stop
           THEN [n \in 1..Len(pos[k]) |->
                    LerpHeight(regenOldHeights[k][n], regenNewHeights[k][n], t)]
           ELSE pos[k]]

\* Line 790, 800: t >= 1.  (NaN >= 1 is false.)
LerpDone(time, duration) == LerpT(time, duration) = <<1, 1>>

\* Lines 801-812: the new samples become each chunk's originalHeights.
AdoptNewHeights(chunks) ==
    [i \in 1..Len(chunks) |->
        IF chunks[i].originalHeights = <<>> THEN chunks[i]
        ELSE [chunks[i] EXCEPT !.originalHeights = regenNewHeights[chunks[i].key]]]

\* update(deltaTime, playerPosition), lines 780-814.  An exception raised by
\* updateTerrainChunks or by the interpolation step ends the call there.
Update(dt, pt) ==
    /\ frame < MaxUpdates
    /\ frame' = frame + 1
    /\ wavePhase' = wavePhase + dt
    /\ lastPoint' = pt
    /\ LET u == UpdateTerrainChunks(terrainChunks, pt, terrainSeed, frame + 1)
           built == MeshHeights(u.chunks, positions)
           waved == AnimateTerrainChunks(u.chunks, built, wavePhase + dt)
           time == regenLerpTime + dt
           lerped == LerpPositions(u.chunks, waved, LerpT(time, regenLerpDuration))
       IN /\ released' = u.released
          /\ IF u.raised
             THEN /\ terrainChunks' = u.chunks
                  /\ positions' = built
                  /\ lastCall' = "TypeError"
                  /\ UNCHANGED <<terrainSeed, seedSetBy, rand, regenVars>>
             ELSE IF ~regenLerpActive
             THEN /\ terrainChunks' = u.chunks
                  /\ positions' = waved
                  /\ lastCall' = "updated"
                  /\ UNCHANGED <<terrainSeed, seedSetBy, rand, regenVars>>
             ELSE IF LerpRaises(u.chunks)
             THEN /\ terrainChunks' = u.chunks
                  /\ positions' = lerped
                  /\ regenLerpTime' = time
                  /\ lastCall' = "TypeError"
                  /\ UNCHANGED <<terrainSeed, seedSetBy, rand, regenLerpActive, regenLerpDuration, regenSeed,
                                 regenOldHeights, regenNewHeights>>
             ELSE IF LerpDone(time, regenLerpDuration)
             THEN /\ terrainChunks' = AdoptNewHeights(u.chunks)
                  /\ positions' = lerped
                  /\ terrainSeed' = regenSeed
                  /\ rand' = SeededRandom(regenSeed)
                  /\ seedSetBy' = "update"
                  /\ regenLerpActive' = FALSE
                  /\ regenLerpTime' = time
                  /\ lastCall' = "updated"
                  /\ UNCHANGED <<regenLerpDuration, regenSeed, regenOldHeights, regenNewHeights>>
             ELSE /\ terrainChunks' = u.chunks
                  /\ positions' = lerped
                  /\ regenLerpTime' = time
                  /\ lastCall' = "updated"
                  /\ UNCHANGED <<terrainSeed, seedSetBy, rand, regenLerpActive, regenLerpDuration, regenSeed,
                                 regenOldHeights, regenNewHeights>>
    /\ UNCHANGED <<handoff, loop, trenchPass, workerVars, callVars, gameVars, geometryVars, hostSeed>>

----------------------------------------------------------------------------
\* new UnifiedTerrain(...), lines 20-60: an empty Map, no transition, and a
\* seed that is window.globalTerrainSeed or Math.floor(Math.random() * 1e9).
Constructed(size, resolution, distance, seed) ==
    /\ chunkSize = size
    /\ chunkResolution = resolution
    /\ renderDistance = distance
    /\ terrainSeed = seed
    /\ rand = SeededRandom(seed)
    /\ seedSetBy = "constructor"
    /\ hostSeed = 0 - 1
    /\ terrainChunks = <<>>
    /\ positions = <<>>
    /\ wavePhase = 0
    /\ regenLerpActive = FALSE
    /\ regenLerpTime = 0
    /\ regenLerpDuration = 0
    /\ regenSeed = 0
    /\ regenOldHeights = <<>>
    /\ regenNewHeights = <<>>
    /\ frame = 0
    /\ lastCall = "constructed"
    /\ lastPoint = <<0, 0>>
    /\ released = {}

\* A second generator constructed with the given seed, an origin land cell
\* with or without a land mass, and no call made yet.
NoCalls(seed, roll) ==
    /\ twin = [terrainSeed |-> seed, rand |-> SeededRandom(seed)]
    /\ landRoll = roll
    /\ heightCalls = <<>>
    /\ streams = <<>>
    /\ hashCalls = <<>>

\* Every peer's game is loaded: its generator's constructor has fixed
\* window.globalTerrainSeed (lines 45-49), its ocean clock is its own, and
\* no packet has reached its main thread.
GameLoaded(seeds) ==
    /\ globalTerrainSeed = seeds
    /\ globalOceanStartTime = [p \in Peers |-> p]
    /\ handled = [p \in Peers |-> 0]

\* The hand-off of a client's AI ships to the host, game.js lines 875-1010,
\* between one client and the host.  A pawn at the host is <<k, i>>: the
\* i-th ship of the k-th client_ai_info message the host handled; <<0, i>>
\* are the host's own (lines 310-319).  aiPlayers and hostedClientAIPlayers
\* are kept as the sets of their elements; clientContributedAIByPeer is the
\* entry of conn.peer, <<>> while undefined, else <<its elements>>; loading
\* are the createAIPlayer calls whose callback is still to run.
maxAttempts == 5

\* The client has n AI ships of its own and has not yet called
\* sendLocalAIToHost (line 252).
HandoffBegins(n) ==
    handoff = [localAI |-> n, aiConfirmed |-> FALSE, aiSendAttempts |-> 0,
               aiSendTimeout |-> FALSE, toHost |-> <<>>, toClient |-> <<>>,
               handledInfo |-> 0, loading |-> {},
               aiPlayers |-> {<<0, i>> : i \in 1..MaxAI},
               hostedClientAIPlayers |-> {},
               clientContributedAIByPeer |-> <<>>]

\* trySendAIInfo(), lines 960-1008, called by sendLocalAIToHost (line 1009)
\* or by the timeout of lines 1003-1007.  aiInfo was collected once, line 948.
TrySendAIInfo ==
    /\ handoff.aiSendAttempts = 0 \/ handoff.aiSendTimeout
    /\ \E open \in BOOLEAN :
          handoff' =
            IF handoff.aiConfirmed \/ handoff.aiSendAttempts >= maxAttempts
            THEN [handoff EXCEPT !.aiSendTimeout = FALSE]
            ELSE IF open
            THEN [handoff EXCEPT !.aiSendAttempts = @ + 1,
                                 !.toHost = Append(@, [type |-> "client_ai_info",
                                                       aiInfo |-> handoff.localAI]),
                                 !.aiSendTimeout = TRUE]
            ELSE [handoff EXCEPT !.aiSendAttempts = @ + 1, !.aiSendTimeout = FALSE]
    /\ UNCHANGED <<loop, trenchPass, workerVars, terrainVars, callVars, gameVars>>

\* The host's conn.on('data') with client_ai_info, lines 880-913.
HostReceivesAIInfo ==
    /\ handoff.toHost # <<>>
    /\ LET data == Head(handoff.toHost)
           k == handoff.handledInfo + 1
           previous == IF handoff.clientContributedAIByPeer = <<>> THEN {}
                       ELSE handoff.clientContributedAIByPeer[1]
       IN handoff' = [handoff EXCEPT
                         !.toHost = Tail(@),
                         !.handledInfo = k,
                         !.hostedClientAIPlayers = @ \ previous,
                         !.clientContributedAIByPeer = <<{}>>,
                         !.loading = @ \cup {<<k, i>> : i \in 1..data.aiInfo},
                         !.toClient = Append(@, [type |-> "client_ai_spawned"])]
    /\ UNCHANGED <<loop, trenchPass, workerVars, terrainVars, callVars, gameVars>>

\* The callback the handler gave createAIPlayer, lines 895-908, when the
\* ship has loaded.
ShipLoaded(pawn) ==
    /\ pawn \in handoff.loading
    /\ handoff' = [handoff EXCEPT !.loading = @ \ {pawn}, !.aiPlayers = @ \cup {pawn}]
    /\ UNCHANGED <<loop, trenchPass, workerVars, terrainVars, callVars, gameVars>>

\* The client's confirmation listener, lines 977-994.
ClientReceivesSpawned ==
    /\ handoff.toClient # <<>>
    /\ handoff' = IF handoff.aiConfirmed
                  THEN [handoff EXCEPT !.toClient = Tail(@)]
                  ELSE [handoff EXCEPT !.toClient = Tail(@), !.aiConfirmed = TRUE,
                                       !.localAI = 0, !.aiSendTimeout = FALSE]
    /\ UNCHANGED <<loop, trenchPass, workerVars, terrainVars, callVars, gameVars>>

\* The game page of one peer, game.js.  Times are whole multiples of ClockUnit
\* milliseconds; an interval timer is the time of its next firing, 0 when it
\* is not set; window.lastNetworkUpdate is 0 while undefined.  sent holds the
\* times of the last two calls of this.network.broadcastPlayerState.
ClockUnit == 50

\* After setup: the frame loop is started (line 745) and, at a host, the
\* broadcast timer is set (lines 748-822).
GameStarts(base) ==
    loop = [isBase |-> base, now |-> 1, lastNetworkUpdate |-> 0,
            networkBroadcastInterval |-> IF base THEN 1 + 100 \div ClockUnit ELSE 0,
            backgroundInterval |-> 0, sent |-> <<>>]

\* gameNetworking.broadcastPlayerState(playerState), lines 277-288: false
\* when shouldBroadcastState() is, else the state goes out.
Broadcast(l, connected) ==
    IF connected
    THEN [l EXCEPT !.sent = IF Len(@) < 2 THEN Append(@, l.now) ELSE <<@[2], l.now>>]
    ELSE l

\* The broadcast of runGameFrame(deltaTime), lines 682-687.
RunGameFrame(l, connected) ==
    IF /\ l.lastNetworkUpdate = 0 \/ (l.now - l.lastNetworkUpdate) * ClockUnit > 100
       /\ connected
    THEN [Broadcast(l, connected) EXCEPT !.lastNetworkUpdate = l.now]
    ELSE l

\* animate(currentTime), lines 738-744: a frame.
Animate ==
    /\ \E connected \in BOOLEAN : loop' = RunGameFrame(loop, connected)
    /\ UNCHANGED <<handoff, trenchPass, workerVars, terrainVars, callVars, gameVars>>

\* The callback of networkBroadcastInterval, lines 751-822: every 100 ms the
\* host broadcasts unless the game is paused or in settings.
NetworkBroadcastTimer ==
    /\ loop.networkBroadcastInterval = loop.now
    /\ \E paused \in BOOLEAN, connected \in BOOLEAN :
          loop' = [(IF paused THEN loop ELSE Broadcast(loop, connected))
                      EXCEPT !.networkBroadcastInterval = @ + 100 \div ClockUnit]
    /\ UNCHANGED <<handoff, trenchPass, workerVars, terrainVars, callVars, gameVars>>

\* The visibilitychange handler, lines 831-866.
VisibilityChange(hidden) ==
    /\ loop' = [loop EXCEPT !.backgroundInterval =
                   IF hidden THEN (IF @ = 0 THEN loop.now + 100 \div ClockUnit ELSE @) ELSE 0]
    /\ UNCHANGED <<handoff, trenchPass, workerVars, terrainVars, callVars, gameVars>>

\* The callback of backgroundInterval, lines 835-858: a frame, and
\* lastNetworkUpdate is set when it was undefined or over 2000 ms old.
BackgroundFrame ==
    /\ loop.backgroundInterval = loop.now
    /\ \E connected \in BOOLEAN :
          LET originalLastNetworkUpdate == loop.lastNetworkUpdate
              ran == RunGameFrame(loop, connected)
              after == IF \/ originalLastNetworkUpdate = 0
                          \/ (loop.now - originalLastNetworkUpdate) * ClockUnit > 2000
                       THEN [ran EXCEPT !.lastNetworkUpdate = loop.now] ELSE ran
          IN  loop' = [after EXCEPT !.backgroundInterval = @ + 100 \div ClockUnit]
    /\ UNCHANGED <<handoff, trenchPass, workerVars, terrainVars, callVars, gameVars>>

\* Time passes, once every timer that is due has fired.
ClockAdvances ==
    /\ loop.now < MaxTime
    /\ loop.networkBroadcastInterval # loop.now
    /\ loop.backgroundInterval # loop.now
    /\ loop' = [loop EXCEPT !.now = @ + 1]
    /\ UNCHANGED <<handoff, trenchPass, workerVars, terrainVars, callVars, gameVars>>

\* Heights of the trench pass are whole multiples of 1 / DepthUnit and blend
\* weights are multiples of 1 / BlendUnit, so that every blend of the pass is
\* exact.
BlendUnit == 4
DepthUnit == BlendUnit ^ MaxCells
\* What one grid cell of the search holds for the sample point.  A cell
\* without a wide trench is <<>>.  A wide trench (lines 542-642) has the
\* ridge term (ridge1 + ridge2 + ridge3 + rough) * trenchMountainBlend, 0
\* when trenchMountainFactor <= 0.6, and its footprint holds the point or
\* not; the snaking trench (lines 644-722) is looked at inside the wide
\* trench's block only.  A trench whose footprint does not hold the point is
\* given blend 0.
Trenches ==
    {[inside |-> FALSE, blend |-> 0, trenchDepth |-> 0]}
        \cup [inside : {TRUE}, blend : {1, 3}, trenchDepth : {0 - 2 * DepthUnit, 0 - DepthUnit}]

Cells == {<<>>} \cup {<<[ridge |-> r, wide |-> w, snake |-> s]>> :
                        r \in {0, DepthUnit}, w \in Trenches, s \in Trenches}

\* Lines 520-521: trenchFinalBlend = 0, trenchFinalDepth = height.
TrenchPassBegins(height) ==
    trenchPass = [height |-> height, trenchFinalBlend |-> 0, trenchFinalDepth |-> height,
                  cells |-> <<>>]

\* Lines 635 and 714: trenchDepth * blend + trenchFinalDepth * (1 - blend).
Blended(trenchDepth, blend, depth) ==
    (trenchDepth * blend + depth * (BlendUnit - blend)) \div BlendUnit

\* Faulty variant: a trench is taken when its blended result is deeper, whatever its weight.
Select_Deepest(pass, t) ==
    LET blended == Blended(t.trenchDepth, t.blend, pass.height)
    IN IF t.inside /\ blended < pass.trenchFinalDepth
       THEN [pass EXCEPT !.trenchFinalBlend = t.blend, !.trenchFinalDepth = blended]
       ELSE pass

\* Lines 618-642 and 699-721: inside its footprint a trench is blended with
\* the depth found so far, and taken when its weight is larger or its
\* blended result is deeper.
Select(pass, t) ==
    LET blended == Blended(t.trenchDepth, t.blend, pass.trenchFinalDepth)
    IN IF t.inside /\ (t.blend > pass.trenchFinalBlend \/ blended < pass.trenchFinalDepth)
       THEN [pass EXCEPT !.trenchFinalBlend = t.blend, !.trenchFinalDepth = blended]
       ELSE pass

\* Lines 602-610: the ridges of a wide trench's cell come off the depth
\* found so far.
Roughen(pass, ridge) == [pass EXCEPT !.trenchFinalDepth = @ - ridge]

\* One iteration of the loops of lines 529-724.
VisitCell(cell) ==
    /\ Len(trenchPass.cells) < MaxCells
    /\ trenchPass' =
          LET seen == [trenchPass EXCEPT !.cells = Append(@, cell)]
          IN IF cell = <<>> THEN seen
             ELSE Select(Select(Roughen(seen, cell[1].ridge), cell[1].wide), cell[1].snake)
    /\ UNCHANGED <<handoff, loop, workerVars, terrainVars, callVars, gameVars>>

\* The workers before any peer has opened.
InitWorker ==
    /\ started = [p \in Peers |-> FALSE]
    /\ isBase = [p \in Peers |-> FALSE]
    /\ lobbyConnectedPeers = [p \in Peers |-> <<>>]
    /\ lobbyPeerConnections = [p \in Peers |-> [q \in Peers |-> 0]]
    /\ lobbyFull = [p \in Peers |-> FALSE]
    /\ nHandlers = [p \in Peers |-> 0]
    /\ claiming = [p \in Peers |-> 0]
    /\ basePeer = [p \in Peers |-> "none"]
    /\ holder = 0
    /\ joinTimers = [p \in Peers |-> 0]
    /\ baseTimers = [p \in Peers |-> 0]
    /\ conns = <<>>
    /\ networkData = [p \in Peers |-> <<>>]
    /\ sent = <<>>
    /\ errors = 0
    /\ drops = 0

Init ==
    /\ LOBBY_SIZE \in LobbySizes
    /\ InitWorker
    /\ Constructed(MaxChunkSize, ResolutionBound, MaxRenderDistance, MaxSeed)
    /\ NoCalls(MaxSeed, FALSE)
    /\ GameLoaded([p \in Peers |-> MaxSeed])
    /\ TrenchPassBegins(0)
    /\ GameStarts(FALSE)
    /\ HandoffBegins(1)

\* The protocol's own steps: claims, timers, discovery and joins.
Formation ==
    \/ \E p \in Peers : PeerOpen(p)
    \/ \E p \in Peers : ClaimOpen(p)
    \/ \E p \in Peers : ClaimError(p)
    \/ \E p \in Peers : BaseTimer(p)
    \/ \E p \in Peers : JoinChain(p)
    \/ \E c \in ConnIds : Discovery(c)
    \/ \E c \in ConnIds : BaseRedirect(c)
    \/ \E c \in ConnIds : BaseLobbyFull(c)
    \/ \E c \in ConnIds : HostJoin(c)
    \/ \E c \in ConnIds : ClientData(c)

\* Session formation under connection errors and disconnects.
Next ==
    \/ Formation
    \/ \E c \in ConnIds : BaseError(c)
    \/ \E c \in ConnIds : ConnDrop(c)
    \/ \E c \in ConnIds : CloseEvent(c)

Spec == Init /\ [][Next]_vars

\* Session formation with application packets, all connections staying up.
NextRelay ==
    \/ Formation
    \/ \E c \in ConnIds, t \in PacketTypes, id \in Peers : SendPacket(c, t, id)
    \/ \E c \in ConnIds : HostRelay(c)

SpecRelay == Init /\ [][NextRelay]_vars

\* Session formation and relaying when the holder of the rendezvous
\* identity may leave, so that a peer whose claim failed can claim again and
\* be granted the identity.
NextDepart ==
    \/ Formation
    \/ \E c \in ConnIds : BaseError(c)
    \/ HolderLeaves
    \/ \E c \in ConnIds, t \in PacketTypes : SendPacket(c, t, Conn(c).cl)
    \/ \E c \in ConnIds : HostRelay(c)

SpecDepart == Init /\ [][NextDepart]_vars

\* Exactly LOBBY_SIZE peers, no errors and no disconnects, every timer and
\* every message eventually handled.  (With as many peers as slots no
\* discovery is ever answered lobby_full, so no claim is retried.)
LivePeers == 1..LOBBY_SIZE

NextLive ==
    \/ \E p \in LivePeers : PeerOpen(p)
    \/ \E p \in Peers : ClaimOpen(p)
    \/ \E p \in Peers : ClaimError(p)
    \/ \E p \in Peers : JoinChain(p)
    \/ \E c \in ConnIds : Discovery(c)
    \/ \E c \in ConnIds : BaseRedirect(c)
    \/ \E c \in ConnIds : HostJoin(c)
    \/ \E c \in ConnIds : ClientData(c)

Fairness ==
    /\ \A p \in Peers : WF_vars(p \in LivePeers /\ PeerOpen(p))
    /\ \A p \in Peers : WF_vars(ClaimOpen(p))
    /\ \A p \in Peers : WF_vars(ClaimError(p))
    /\ \A p \in Peers : WF_vars(JoinChain(p))
    /\ \A c \in ConnIds : WF_vars(Discovery(c))
    /\ \A c \in ConnIds : WF_vars(BaseRedirect(c))
    /\ \A c \in ConnIds : WF_vars(HostJoin(c))
    /\ \A c \in ConnIds : WF_vars(ClientData(c))

SpecLive == Init /\ [][NextLive]_vars /\ Fairness

\* The playerState object of a frame, lines 614-680: the pawn's position and
\* rotation (named by the peer), and on the host the ocean clock and the AI
\* ships; <<>> is null.
PlayerState(h) ==
    [position |-> h, rotation |-> h, shipModelRotation |-> h, shipModelPosition |-> h,
     surgeActive |-> FALSE,
     oceanSync |-> IF isBase[h] THEN <<globalOceanStartTime[h]>> ELSE <<>>,
     aiStates |-> <<>>]

\* The packet the frame's object travels in.
StatePacket(h, n) ==
    [type |-> "player_state", peerId |-> h, n |-> n, state |-> PlayerState(h)]

\* The host's frame broadcasts its state, lines 682-687 with the guard of
\* shouldBroadcastState (lines 258-273): the packet goes to every tracked
\* connection.
BroadcastPlayerState(h) ==
    /\ isBase[h]
    /\ \E q \in Peers : lobbyPeerConnections[h][q] # 0
    /\ Len(sent) < MaxPackets
    /\ sent' = Append(sent, h)
    /\ conns' = Deliver(conns,
            [i \in 1..Len(lobbyConnectedPeers[h]) |->
                <<lobbyPeerConnections[h][lobbyConnectedPeers[h][i]],
                  StatePacket(h, Len(sent) + 1)>>])
    /\ UNCHANGED <<handoff, loop, trenchPass, terrainVars, callVars, gameVars, LOBBY_SIZE, started, leaderVars, nHandlers,
                   claiming, basePeer, holder, joinTimers, baseTimers, networkData, errors, drops>>

\* handlePlayerState(peerId, state), lines 150-204, on the next packet posted
\* to peer p's main thread: the sender's pawn and AI ships are updated, and
\* a client takes the ocean clock of a host's packet.
HandlePlayerState(p) ==
    /\ handled[p] < Len(networkData[p])
    /\ handled' = Inc(handled, p)
    /\ LET data == networkData[p][handled[p] + 1]
       IN globalOceanStartTime' =
            IF "state" \in DOMAIN data /\ data.state.oceanSync # <<>> /\ ~isBase[p]
            THEN [globalOceanStartTime EXCEPT ![p] = data.state.oceanSync[1]]
            ELSE globalOceanStartTime
    /\ UNCHANGED <<handoff, loop, trenchPass, workerVars, terrainVars, callVars, globalTerrainSeed>>

\* A session forming among LOBBY_SIZE peers whose generators drew their own
\* seeds, the host broadcasting its state and the members handling it.
InitSeed ==
    /\ LOBBY_SIZE \in LobbySizes
    /\ InitWorker
    /\ Constructed(MaxChunkSize, ResolutionBound, MaxRenderDistance, MaxSeed)
    /\ NoCalls(MaxSeed, FALSE)
    /\ \E seeds \in [Peers -> Seeds] :
        /\ \A p \in Peers : p > LOBBY_SIZE => seeds[p] = MaxSeed
        /\ GameLoaded(seeds)
        /\ TrenchPassBegins(0)
        /\ GameStarts(FALSE)
        /\ HandoffBegins(1)

NextSeed ==
    \/ NextLive
    \/ \E h \in Peers : BroadcastPlayerState(h)
    \/ \E p \in Peers : HandlePlayerState(p)

SpecSeed == InitSeed /\ [][NextSeed]_vars

\* The trench pass of one call, over any height and any cells in any order;
\* line 771 returns trenchFinalDepth.
InitTrench ==
    /\ LOBBY_SIZE = MaxLobbySize
    /\ InitWorker
    /\ Constructed(MaxChunkSize, ResolutionBound, MaxRenderDistance, MaxSeed)
    /\ NoCalls(MaxSeed, FALSE)
    /\ GameLoaded([p \in Peers |-> MaxSeed])
    /\ \E height \in {0 - DepthUnit, 0} : TrenchPassBegins(height)
    /\ GameStarts(FALSE)
    /\ HandoffBegins(1)

NextTrench == \E cell \in Cells : VisitCell(cell)

SpecTrench == InitTrench /\ [][NextTrench]_vars

\* The game page of a host or of a client, over any frames, visibility
\* changes and connection states.
InitLoop ==
    /\ LOBBY_SIZE = MaxLobbySize
    /\ InitWorker
    /\ Constructed(MaxChunkSize, ResolutionBound, MaxRenderDistance, MaxSeed)
    /\ NoCalls(MaxSeed, FALSE)
    /\ GameLoaded([p \in Peers |-> MaxSeed])
    /\ TrenchPassBegins(0)
    /\ \E base \in BOOLEAN : GameStarts(base)
    /\ HandoffBegins(1)

NextLoop ==
    \/ Animate
    \/ NetworkBroadcastTimer
    \/ \E hidden \in BOOLEAN : VisibilityChange(hidden)
    \/ BackgroundFrame
    \/ ClockAdvances

SpecLoop == InitLoop /\ [][NextLoop]_vars

\* The hand-off between a client with any number of AI ships and the host,
\* over any delays of the messages, of the retry timeout and of the loads.
InitHandoff ==
    /\ LOBBY_SIZE = MaxLobbySize
    /\ InitWorker
    /\ Constructed(MaxChunkSize, ResolutionBound, MaxRenderDistance, MaxSeed)
    /\ NoCalls(MaxSeed, FALSE)
    /\ GameLoaded([p \in Peers |-> MaxSeed])
    /\ TrenchPassBegins(0)
    /\ GameStarts(FALSE)
    /\ \E n \in 1..MaxAI : HandoffBegins(n)

NextHandoff ==
    \/ TrySendAIInfo
    \/ HostReceivesAIInfo
    \/ \E pawn \in (1..maxAttempts) \X (1..MaxAI) : ShipLoaded(pawn)
    \/ ClientReceivesSpawned

SpecHandoff == InitHandoff /\ [][NextHandoff]_vars

\* The terrain generator on its own: any chunk geometry, any seed, and any
\* sequence of update and seed-application calls.
InitTerrain ==
    /\ LOBBY_SIZE = MaxLobbySize
    /\ InitWorker
    /\ \E g \in Geometries, resolution \in 1..ResolutionBound, seed \in Seeds :
            Constructed(g[1], resolution, g[2], seed)
    /\ NoCalls(MaxSeed, FALSE)
    /\ GameLoaded([p \in Peers |-> MaxSeed])
    /\ TrenchPassBegins(0)
    /\ GameStarts(FALSE)
    /\ HandoffBegins(1)

NextTerrain ==
    \/ \E pt \in Points : Update(1, pt)
    \/ \E seed \in Seeds, duration \in Durations : SetTerrainSeedAndRegenerate(seed, duration)

SpecTerrain == InitTerrain /\ [][NextTerrain]_vars

\* A hash2D(seed, x, z) call, its result noted.
Hash2DCall(seed, x, z) ==
    /\ Len(hashCalls) < MaxCalls
    /\ hashCalls' = Append(hashCalls,
            [seed |-> seed, x |-> x, z |-> z, hash |-> Hash2D(seed, x, z)])
    /\ UNCHANGED <<handoff, loop, trenchPass, workerVars, terrainVars, gameVars, twin, landRoll, heightCalls, streams>>

\* hash2D on its own, called on seeds and grid cells in any order.
InitHash ==
    /\ LOBBY_SIZE = MaxLobbySize
    /\ InitWorker
    /\ Constructed(MaxChunkSize, ResolutionBound, MaxRenderDistance, MaxSeed)
    /\ NoCalls(MaxSeed, FALSE)
    /\ GameLoaded([p \in Peers |-> MaxSeed])
    /\ TrenchPassBegins(0)
    /\ GameStarts(FALSE)
    /\ HandoffBegins(1)

NextHash == \E seed \in Seeds, x \in Coords, z \in Coords : Hash2DCall(seed, x, z)

SpecHash == InitHash /\ [][NextHash]_vars

\* The number of draws made so far on all streams.
RECURSIVE DrawsMade(_)
DrawsMade(ss) == IF ss = <<>> THEN 0 ELSE Len(Head(ss).drawn) + DrawsMade(Tail(ss))

\* seededRandom(seed): a new closure over its own x.
NewStream(seed) ==
    /\ Len(streams) < MaxStreams
    /\ streams' = Append(streams, [seed |-> seed, x |-> SeededRandom(seed), drawn |-> <<>>])
    /\ UNCHANGED <<handoff, loop, trenchPass, workerVars, terrainVars, gameVars, twin, landRoll, heightCalls, hashCalls>>

\* Faulty variant: the closures share the x of the first one.
Draw_Shared(i) ==
    /\ Len(streams[i].drawn) < MaxDraws
    /\ LET x == SinTimes10000(streams[1].x)
           value == [value |-> FractionalPart(x), nth |-> DrawsMade(streams) + 1]
       IN streams' = [k \in 1..Len(streams) |->
                        [streams[k] EXCEPT !.x = IF k = 1 THEN x ELSE @,
                                           !.drawn = IF k = i THEN Append(@, value) ELSE @]]
    /\ UNCHANGED <<handoff, loop, trenchPass, workerVars, terrainVars, gameVars, twin, landRoll, heightCalls, hashCalls>>

\* A call of closure i: x = Math.sin(x) * 10000; return x - Math.floor(x).
\* nth is the number of the draw among the draws of all closures.
Draw(i) ==
    /\ Len(streams[i].drawn) < MaxDraws
    /\ LET x == SinTimes10000(streams[i].x)
           value == [value |-> FractionalPart(x), nth |-> DrawsMade(streams) + 1]
       IN streams' = [streams EXCEPT ![i] = [@ EXCEPT !.x = x, !.drawn = Append(@, value)]]
    /\ UNCHANGED <<handoff, loop, trenchPass, workerVars, terrainVars, gameVars, twin, landRoll, heightCalls, hashCalls>>

\* seededRandom on its own: closures are created and called in any order.
InitRandom ==
    /\ LOBBY_SIZE = MaxLobbySize
    /\ InitWorker
    /\ Constructed(MaxChunkSize, ResolutionBound, MaxRenderDistance, MaxSeed)
    /\ NoCalls(MaxSeed, FALSE)
    /\ GameLoaded([p \in Peers |-> MaxSeed])
    /\ TrenchPassBegins(0)
    /\ GameStarts(FALSE)
    /\ HandoffBegins(1)

NextRandom ==
    \/ \E seed \in Seeds : NewStream(seed)
    \/ \E i \in 1..Len(streams) : Draw(i)

SpecRandom == InitRandom /\ [][NextRandom]_vars

\* Faulty variant: the height takes a draw from the generator's own stream
\* this.rand, which moves on with every call.
HeightCall_ThisRand(at) ==
    /\ Len(heightCalls) < MaxCalls
    /\ rand' = SinTimes10000(rand)
    /\ heightCalls' = Append(heightCalls,
            [gen |-> "this", seed |-> terrainSeed, at |-> at,
             height |-> [by |-> "generateTerrainHeight", seed |-> terrainSeed, at |-> at,
                         draw |-> FractionalPart(SinTimes10000(rand))]])
    /\ UNCHANGED <<handoff, loop, trenchPass, workerVars, geometryVars, terrainSeed, seedSetBy, hostSeed, terrainChunks,
                   positions, wavePhase, regenVars, frame, lastCall, lastPoint, released,
                   twin, landRoll, streams, hashCalls, gameVars>>

\* A generateTerrainHeight(x, z) call on the generator from outside, its
\* result noted.
HeightCall(at) ==
    /\ Len(heightCalls) < MaxCalls
    /\ heightCalls' = Append(heightCalls,
            [gen |-> "this", seed |-> terrainSeed, at |-> at,
             height |-> GenerateTerrainHeight(terrainSeed, at, landRoll)])
    /\ UNCHANGED <<handoff, loop, trenchPass, workerVars, terrainVars, gameVars, twin, landRoll, streams, hashCalls>>

\* The same call on the second generator.
TwinHeightCall(at) ==
    /\ Len(heightCalls) < MaxCalls
    /\ heightCalls' = Append(heightCalls,
            [gen |-> "twin", seed |-> twin.terrainSeed, at |-> at,
             height |-> GenerateTerrainHeight(twin.terrainSeed, at, landRoll)])
    /\ UNCHANGED <<handoff, loop, trenchPass, workerVars, terrainVars, gameVars, twin, landRoll, streams, hashCalls>>

\* The points heights are asked for: the first and the last vertex of
\* chunk <<0, 0>>.
HeightPoints ==
    {VertexAt(<<0, 0>>, n) : n \in {1, (chunkResolution + 1) * (chunkResolution + 1)}}

\* Two generators constructed on their own, the first one updated and
\* re-seeded between the calls; its cache holds the chunk of the reference
\* point only.
InitHeight ==
    /\ LOBBY_SIZE = MaxLobbySize
    /\ InitWorker
    /\ \E seed \in Seeds :
            Constructed(MaxChunkSize, ResolutionBound, 1, seed)
    /\ \E seed \in Seeds, roll \in BOOLEAN : NoCalls(seed, roll)
    /\ GameLoaded([p \in Peers |-> MaxSeed])
    /\ TrenchPassBegins(0)
    /\ GameStarts(FALSE)
    /\ HandoffBegins(1)

NextHeight ==
    \/ \E pt \in {0 - MaxCoord, 0} \X {0} : Update(1, pt)
    \/ \E seed \in Seeds \cup {NoSeed} : SetTerrainSeedAndRegenerate(seed, 0)
    \/ \E at \in HeightPoints : HeightCall(at)
    \/ \E at \in HeightPoints : TwinHeightCall(at)

SpecHeight == InitHeight /\ [][NextHeight]_vars

\* One geometry is enough for the transition: chunks as wide as the render
\* distance, so that the cache holds a chunk and its four neighbours.
InitRegen ==
    /\ LOBBY_SIZE = MaxLobbySize
    /\ InitWorker
    /\ \E seed \in Seeds :
            Constructed(MaxChunkSize, ResolutionBound, MaxChunkSize, seed)
    /\ NoCalls(MaxSeed, FALSE)
    /\ GameLoaded([p \in Peers |-> MaxSeed])
    /\ TrenchPassBegins(0)
    /\ GameStarts(FALSE)
    /\ HandoffBegins(1)

\* The generator with regenerateTerrain called on its own as well.  The
\* reference point moves along one axis.
NextRegen ==
    \/ \E pt \in Coords \X {0} : Update(1, pt)
    \/ \E seed \in Seeds, duration \in Durations : SetTerrainSeedAndRegenerate(seed, duration)
    \/ \E seed \in Seeds, duration \in Durations : Regenerate(seed, duration)

SpecRegen == InitRegen /\ [][NextRegen]_vars

\* The same peers with host connections that may report an error or go
\* down; what the worker does in response is scheduled fairly, the faults
\* themselves are not.
NextFail ==
    \/ NextLive
    \/ \E c \in ConnIds : HostError(c)
    \/ \E c \in ConnIds : ConnDrop(c)
    \/ \E c \in ConnIds : CloseEvent(c)

SpecFail ==
    /\ Init /\ [][NextFail]_vars
    /\ Fairness
    /\ \A c \in ConnIds : WF_vars(CloseEvent(c))

----------------------------------------------------------------------------
\* The claims.

\* The peer that holds the rendezvous identity acts as Leader.
IsLeader(p) == holder = p

\* C1: in every reachable state of a Leader the roster length never exceeds
\* the configured capacity LOBBY_SIZE.
C1_RosterWithinCapacity ==
    \A p \in Peers : IsLeader(p) => Len(lobbyConnectedPeers[p]) <= LOBBY_SIZE

\* C2: in every reachable state of a Leader, lobbyFull is true if and only if
\* the roster length equals LOBBY_SIZE.
C2_FullIffAtCapacity ==
    \A p \in Peers :
        IsLeader(p) => (lobbyFull[p] <=> Len(lobbyConnectedPeers[p]) = LOBBY_SIZE)

\* s extended by one or more copies of m.
Replied(old, new, m) ==
    /\ Len(new) > Len(old)
    /\ \A i \in 1..Len(new) : new[i] = IF i <= Len(old) THEN old[i] ELSE m

\* A join_host for an identity of the roster arrives on c while another, open
\* connection is tracked for it.
IsDuplicateJoin(c) ==
    LET h == Conn(c).sv
        id == Head(Conn(c).toSv).peerId
        t == lobbyPeerConnections[h][id]
    IN /\ id \in Range(lobbyConnectedPeers[h])
       /\ t # 0 /\ t # c /\ conns[t].svOpen

C3_Step(c) ==
    LET h == Conn(c).sv
        id == Head(Conn(c).toSv).peerId
        t == lobbyPeerConnections[h][id]
    IN /\ IsDuplicateJoin(c) =>
            /\ lobbyConnectedPeers'[h] = lobbyConnectedPeers[h]
            /\ lobbyPeerConnections'[h] = lobbyPeerConnections[h]
            /\ lobbyFull'[h] = lobbyFull[h]
            /\ Replied(conns[c].toCl, conns'[c].toCl,
                       WaitingMsg(Len(lobbyConnectedPeers[h]), LOBBY_SIZE))
       /\ (t # c /\ lobbyPeerConnections'[h][id] = c) => (t = 0 \/ ~conns[t].svOpen)

\* C3: a join_host{id} on connection c2, while id is in the roster and the
\* connection c1 # c2 tracked for id is open, is answered `waiting` on c2 and
\* leaves the roster, the connection table and the full flag unchanged; c2
\* becomes the tracked connection only if the one tracked before is closed.
C3_DuplicateJoinRejected == [][\A c \in ConnIds : HostJoin(c) => C3_Step(c)]_vars

\* Two open connections of one identity, both joins handled, the first one
\* still the tracked one and the second one answered.
C3_Witness ==
    \E c1 \in Live, c2 \in Live :
        /\ c1 # c2
        /\ Conn(c1).kind = "host" /\ Conn(c2).kind = "host"
        /\ Conn(c1).cl = Conn(c2).cl /\ Conn(c1).sv = Conn(c2).sv
        /\ Conn(c1).svOpen /\ Conn(c2).svOpen
        /\ Conn(c1).toSv = <<>> /\ Conn(c2).toSv = <<>>
        /\ lobbyPeerConnections[Conn(c1).sv][Conn(c1).cl] = c1
        /\ Conn(c2).toCl # <<>>
        /\ Conn(c2).toCl[Len(Conn(c2).toCl)].type = "waiting"

C4_Step(c) ==
    LET h == Conn(c).sv
        tracked == {id \in Peers : lobbyPeerConnections[h][id] = c}
    IN /\ \A id \in Peers :
            (id \in Range(lobbyConnectedPeers[h]) /\ id \notin Range(lobbyConnectedPeers'[h]))
                <=> (id \in tracked /\ id \in Range(lobbyConnectedPeers[h]))
       /\ tracked = {} =>
            /\ lobbyConnectedPeers'[h] = lobbyConnectedPeers[h]
            /\ lobbyPeerConnections'[h] = lobbyPeerConnections[h]
            /\ lobbyFull'[h] = lobbyFull[h]

\* C4: a close event of connection c removes an identity from the roster if
\* and only if c is the connection tracked for it; when the tracked connection
\* was replaced before the close event is handled, the event leaves the roster,
\* the connection table and the full flag unchanged.
C4_CloseOnlyTracked == [][\A c \in ConnIds : CloseEvent(c) => C4_Step(c)]_vars

\* c1 had been accepted (it received host_ready), went down and was replaced
\* by c2 before its close event, which then found nothing to remove.
C4_Witness ==
    \E c1 \in Live, c2 \in Live :
        /\ c1 # c2
        /\ Conn(c1).kind = "host" /\ Conn(c2).kind = "host"
        /\ Conn(c1).cl = Conn(c2).cl /\ Conn(c1).sv = Conn(c2).sv
        /\ Conn(c1).lobbyPeers # <<>>
        /\ Conn(c1).ev = "nomatch"
        /\ lobbyPeerConnections[Conn(c1).sv][Conn(c1).cl] = c2
        /\ Conn(c1).cl \in Range(lobbyConnectedPeers[Conn(c1).sv])

C5_Step(c) ==
    LET h == Conn(c).sv
        roster == lobbyConnectedPeers'[h]
    IN (~IsDuplicateJoin(c) /\ Len(roster) = LOBBY_SIZE) =>
            /\ lobbyFull'[h]
            /\ \A i \in 2..Len(roster) :
                 LET k == lobbyPeerConnections'[h][roster[i]]
                 IN /\ k # 0
                    /\ conns[k].svOpen =>
                         Replied(conns[k].toCl, conns'[k].toCl, HostReadyMsg(h, roster))

C5_Adopt(c) ==
    Head(Conn(c).toCl).type = "host_ready" =>
        conns'[c].lobbyPeers = Head(Conn(c).toCl).allPlayers

\* C5: when an accepted join_host brings the roster length to LOBBY_SIZE the
\* Leader sets lobbyFull and sends host_ready, carrying its whole roster, on
\* the open tracked connection of every non-leader member; a client that
\* receives host_ready adopts exactly that roster.
C5_HostReadyToAll ==
    /\ [][\A c \in ConnIds : HostJoin(c) => C5_Step(c)]_vars
    /\ [][\A c \in ConnIds : ClientData(c) => C5_Adopt(c)]_vars

\* A full lobby of at least two whose member holds the Leader's roster.
C5_Witness ==
    \E c \in Live :
        /\ Conn(c).kind = "host"
        /\ lobbyFull[Conn(c).sv]
        /\ Len(lobbyConnectedPeers[Conn(c).sv]) = LOBBY_SIZE
        /\ Conn(c).lobbyPeers = lobbyConnectedPeers[Conn(c).sv]
        /\ Conn(c).cl \in Range(Conn(c).lobbyPeers)
        /\ Head(Conn(c).lobbyPeers) = Conn(c).sv

C6_Close(c) ==
    LET h == Conn(c).sv
    IN \A id \in Peers :
        (lobbyFull[h] /\ id # h /\ lobbyPeerConnections[h][id] = c) =>
            /\ lobbyConnectedPeers'[h] = SelectSeq(lobbyConnectedPeers[h], LAMBDA x : x # id)
            /\ Len(lobbyConnectedPeers'[h]) = Len(lobbyConnectedPeers[h]) - 1
            /\ ~lobbyFull'[h]
            /\ holder' = holder /\ isBase'[h] = isBase[h]

C6_Join(c) ==
    LET h == Conn(c).sv
        id == Head(Conn(c).toSv).peerId
    IN id \notin Range(lobbyConnectedPeers[h]) =>
            /\ lobbyConnectedPeers'[h] = Append(lobbyConnectedPeers[h], id)
            /\ lobbyPeerConnections'[h][id] = c

\* C6: when the lobby is full and a non-leader member's tracked connection
\* closes, the roster loses exactly that member, lobbyFull becomes false and
\* the Leader stays Leader; a later join_host of a new peer is accepted.
C6_LobbyReopens ==
    /\ [][\A c \in ConnIds : CloseEvent(c) => C6_Close(c)]_vars
    /\ [][\A c \in ConnIds : HostJoin(c) => C6_Join(c)]_vars

\* LOBBY_SIZE = 2: B was removed on its close event, C joined after it, the
\* lobby is full again and C was sent host_ready.
C6_Witness ==
    \E b \in Live, c \in Live :
        /\ LOBBY_SIZE = 2
        /\ Conn(b).kind = "host" /\ Conn(c).kind = "host"
        /\ Conn(b).sv = Conn(c).sv /\ Conn(b).cl # Conn(c).cl
        /\ Conn(b).ev = "removed"
        /\ Conn(b).lobbyPeers = <<Conn(b).sv, Conn(b).cl>>
        /\ lobbyConnectedPeers[Conn(c).sv] = <<Conn(c).sv, Conn(c).cl>>
        /\ lobbyFull[Conn(c).sv]
        /\ Conn(c).lobbyPeers = <<Conn(c).sv, Conn(c).cl>>

\* Every non-leader live peer holds a connection to h on which it adopted roster r.
AllAdopted(h, r) ==
    \A p \in LivePeers \ {h} :
        \E c \in Live : /\ Conn(c).kind = "host" /\ Conn(c).cl = p /\ Conn(c).sv = h
                        /\ Conn(c).lobbyPeers = r

Formed ==
    \E h \in LivePeers :
        /\ IsLeader(h) /\ isBase[h]
        /\ Len(lobbyConnectedPeers[h]) = LOBBY_SIZE
        /\ Range(lobbyConnectedPeers[h]) = LivePeers
        /\ Head(lobbyConnectedPeers[h]) = h
        /\ lobbyFull[h]
        /\ AllAdopted(h, lobbyConnectedPeers[h])

\* C7: with exactly LOBBY_SIZE peers, reliable delivery, no disconnects and
\* fair scheduling, eventually the Leader's roster holds all LOBBY_SIZE
\* identities (Leader first), lobbyFull is true and every other peer has
\* received host_ready with that roster.
C7_SessionForms == <>Formed

\* The same when the capacity is at least two.
C7_SessionFormsFromTwo == (LOBBY_SIZE >= 2) => <>Formed

C8_Step(c) ==
    LET h == Conn(c).sv
        n == Len(lobbyConnectedPeers[h])
        reply == IF lobbyFull[h] \/ n >= LOBBY_SIZE
                 THEN [type |-> "lobby_full"]
                 ELSE [type |-> "redirect_to_host", hostId |-> holder,
                       currentPlayers |-> n, totalPlayers |-> LOBBY_SIZE]
    IN /\ h = holder
       /\ conns'[c].toCl = <<reply>>
       /\ ~conns'[c].svOpen
       /\ conns'[c].toSv = <<>>
       /\ UNCHANGED <<lobbyConnectedPeers, lobbyPeerConnections, lobbyFull, isBase>>

\* A discovery connection carries one join and, once answered, one reply.
C8_OneReply ==
    \A c \in Live :
        Conn(c).kind = "base" =>
            /\ Len(Conn(c).toSv) + Len(Conn(c).toCl) <= 1
            /\ Conn(c).toSv # <<>> => Conn(c).svOpen
            /\ Conn(c).toCl # <<>> => ~Conn(c).svOpen

\* C8: the holder of the rendezvous identity answers every discovery join
\* with exactly one reply and closes the connection: lobby_full when lobbyFull
\* is set or the roster length is at least LOBBY_SIZE, otherwise
\* redirect_to_host naming the holder, the roster length and LOBBY_SIZE; the
\* roster, the connection table and the full flag are unchanged.
C8_DiscoveryReply ==
    /\ []C8_OneReply
    /\ [][\A c \in ConnIds : Discovery(c) => C8_Step(c)]_vars

\* Both replies have been given: a redirect and, to another peer, lobby_full.
C8_Witness ==
    \E c1 \in Live, c2 \in Live :
        /\ Conn(c1).kind = "base" /\ Conn(c2).kind = "base"
        /\ Conn(c1).toCl # <<>> /\ Head(Conn(c1).toCl).type = "redirect_to_host"
        /\ Conn(c2).toCl # <<>> /\ Head(Conn(c2).toCl).type = "lobby_full"
        /\ ~Conn(c1).svOpen /\ ~Conn(c2).svOpen

\* The packet at the head of c was sent by the member whose tracked connection is c.
FromMember(c) == lobbyPeerConnections[Conn(c).sv][Conn(c).cl] = c

C9_Step(c) ==
    LET h == Conn(c).sv
        m == Conn(c).cl
        data == Head(Conn(c).toSv)
    IN FromMember(c) =>
        /\ conns'[c].toCl = conns[c].toCl
        /\ \A r \in Range(lobbyConnectedPeers[h]) \ {h, m} :
             LET k == lobbyPeerConnections[h][r]
             IN (k # 0 /\ conns[k].svOpen) => Replied(conns[k].toCl, conns'[k].toCl, data)

\* C9: a message or player_state packet the Leader receives from member m is
\* forwarded to every other roster member with an open tracked connection and
\* is never sent back to m.
C9_RelayNoEcho == [][\A c \in ConnIds : HostRelay(c) => C9_Step(c)]_vars

\* The same for packets whose peerId field names their sender.
C9_RelayNoEchoNamed ==
    [][\A c \in ConnIds :
          (HostRelay(c) /\ Head(Conn(c).toSv).peerId = Conn(c).cl) => C9_Step(c)]_vars

\* Packet numbers of sender s in the order peer r's worker posted them.
Posted(r, s) ==
    LET mine == SelectSeq(networkData[r], LAMBDA d : sent[d.n] = s)
    IN [i \in 1..Len(mine) |-> mine[i].n]

C11_Success(p) ==
    /\ isBase[p] /\ isBase'[p]
    /\ lobbyConnectedPeers'[p] = <<p>>
    /\ ~lobbyFull'[p]
    /\ IsLeader(p)'

C11_Failure(p) ==
    /\ ~isBase'[p]
    /\ basePeer'[p] = "released"
    /\ claiming'[p] = claiming[p] - 1
    /\ joinTimers' = Inc(joinTimers, p)
    /\ baseTimers' = baseTimers /\ conns' = conns

C11_Discover(p) ==
    /\ joinTimers' = Dec(joinTimers, p)
    /\ Len(conns') = Len(conns) + 1
    /\ conns'[Len(conns')].kind = "base" /\ conns'[Len(conns')].cl = p
    /\ \A c \in Live : conns'[c] = conns[c]

\* C11: a peer whose claim of the rendezvous identity succeeds is Leader with
\* roster <<self>> and lobbyFull false, and only a Leader answers discovery
\* joins; a peer whose claim fails has isBase false, the failed claim is the
\* one released, nothing else in flight is withdrawn, and exactly one
\* joinChain is scheduled, which opens one discovery connection.
C11_ClaimTransitions ==
    /\ [][\A p \in Peers : ClaimOpen(p) => C11_Success(p)]_vars
    /\ [][\A c \in ConnIds : Discovery(c) => IsLeader(Conn(c).sv)]_vars
    /\ [][\A p \in Peers : ClaimError(p) => C11_Failure(p)]_vars
    /\ [][\A p \in Peers : JoinChain(p) => C11_Discover(p)]_vars

\* The same, leaving out which claim object is released.
C11_RoleTransitions ==
    /\ [][\A p \in Peers : ClaimOpen(p) => C11_Success(p)]_vars
    /\ [][\A c \in ConnIds : Discovery(c) => IsLeader(Conn(c).sv)]_vars
    /\ [][\A p \in Peers : ClaimError(p) =>
             (~isBase'[p] /\ joinTimers' = Inc(joinTimers, p) /\ baseTimers' = baseTimers)]_vars
    /\ [][\A p \in Peers : JoinChain(p) => C11_Discover(p)]_vars

\* C12: at any time a peer's isBase flag is true only while that peer holds
\* the rendezvous identity, so that at most one peer is in the Leader role.
C12_LeaderOnlyWhileHolding ==
    /\ \A p \in Peers : isBase[p] => IsLeader(p)
    /\ Cardinality({p \in Peers : isBase[p]}) <= 1

\* The identity itself has at most one holder, and a holder has isBase set.
C12_HolderIsBase == \A p \in Peers : IsLeader(p) => isBase[p]

\* Connection c is closed on the client's side and nothing else about the
\* connections changes.
ClosedByClient(c) ==
    /\ ~conns'[c].clOpen
    /\ Len(conns') = Len(conns)
    /\ \A d \in Live \ {c} : conns'[d] = conns[d]

C13_Redirect(c) ==
    LET p == Conn(c).cl
        n == Len(conns) + 1
    IN /\ ~conns'[c].clOpen
       /\ Len(conns') = n
       /\ \A d \in Live \ {c} : conns'[d] = conns[d]
       /\ conns'[n].kind = "host" /\ conns'[n].cl = p
       /\ conns'[n].sv = Head(Conn(c).toCl).hostId
       /\ conns'[n].toSv = <<[type |-> "join_host", peerId |-> p]>>
       /\ UNCHANGED <<baseTimers, joinTimers, claiming>>

C13_Retry(c) ==
    /\ baseTimers' = Inc(baseTimers, Conn(c).cl)
    /\ UNCHANGED <<joinTimers, claiming>>

C13_Reclaim(p) ==
    /\ baseTimers' = Dec(baseTimers, p)
    /\ claiming' = Inc(claiming, p)
    /\ basePeer'[p] = "pending"
    /\ UNCHANGED <<joinTimers, conns>>

\* C13: a client that receives redirect_to_host{hostId} closes the discovery
\* connection and opens exactly one connection to hostId carrying join_host
\* with its own identity; a client that receives lobby_full, on the discovery
\* connection or on the host connection, closes that connection and schedules
\* one tryBecomeBase; a client whose discovery connection errors schedules one
\* tryBecomeBase; each scheduled timer starts exactly one claim.
C13_ClientRetry ==
    /\ [][\A c \in ConnIds : BaseRedirect(c) => C13_Redirect(c)]_vars
    /\ [][\A c \in ConnIds : BaseLobbyFull(c) => (ClosedByClient(c) /\ C13_Retry(c))]_vars
    /\ [][\A c \in ConnIds :
             (ClientData(c) /\ Head(Conn(c).toCl).type = "lobby_full")
                 => (ClosedByClient(c) /\ C13_Retry(c))]_vars
    /\ [][\A c \in ConnIds :
             BaseError(c) => (C13_Retry(c) /\ Len(conns') = Len(conns))]_vars
    /\ [][\A p \in Peers : BaseTimer(p) => C13_Reclaim(p)]_vars

\* One client was redirected and has joined its host; another was answered
\* lobby_full, closed its discovery connection and has claimed again; a
\* discovery connection has reported an error.
C13_Witness ==
    \E c \in Live, d \in Live :
        /\ Conn(c).kind = "host" /\ Conn(c).toSv = <<>>
        /\ Conn(c).cl \in Range(lobbyConnectedPeers[Conn(c).sv])
        /\ Conn(d).kind = "base" /\ Conn(d).cl # Conn(c).cl
        /\ ~Conn(d).clOpen
        /\ \A e \in Live : Conn(e).cl = Conn(d).cl => ~Conn(e).errored
        /\ nHandlers[Conn(d).cl] >= 2
        /\ baseTimers[Conn(d).cl] = 0
        /\ errors > 0

\* Peer p had a connection to its host that went down, and now has no open
\* connection, no pending timer and no claim in flight.
Stranded(p) ==
    /\ \E c \in Live : Conn(c).kind = "host" /\ Conn(c).cl = p /\ Conn(c).ev # "none"
    /\ \A c \in Live : Conn(c).cl = p => ~Conn(c).clOpen
    /\ joinTimers[p] = 0 /\ baseTimers[p] = 0 /\ claiming[p] = 0

\* C14: a client whose connection to the host failed does not remain for
\* ever without an open connection, a pending retry timer or a claim in
\* flight: it eventually retries.
C14_ClientRecovers == \A p \in Peers : Stranded(p) ~> ~Stranded(p)

\* Sequence s without its i-th element.
WithoutAt(s, i) == [j \in 1..(Len(s) - 1) |-> IF j < i THEN s[j] ELSE s[j + 1]]

C15_LeaderFirst ==
    \A h \in Peers :
        IsLeader(h) =>
            /\ lobbyConnectedPeers[h] # <<>>
            /\ Head(lobbyConnectedPeers[h]) = h
            /\ \A i \in 2..Len(lobbyConnectedPeers[h]) : lobbyConnectedPeers[h][i] # h

C15_Step(h) ==
    LET r == lobbyConnectedPeers[h]
        r2 == lobbyConnectedPeers'[h]
    IN \/ r2 = r
       \/ \E id \in Peers \ {h} : id \notin Range(r) /\ r2 = Append(r, id)
       \/ \E i \in 2..Len(r) : r2 = WithoutAt(r, i)

\* C15: in every reachable Leader state the roster starts with the Leader's
\* own identity, which occurs nowhere else in it; a step of a Leader appends
\* one new identity at the end of its roster or removes one element other
\* than the first, keeping the order of the others, or leaves the roster as
\* it is.
C15_RosterOrder ==
    /\ []C15_LeaderFirst
    /\ [][\A h \in Peers : (IsLeader(h) /\ IsLeader(h)') => C15_Step(h)]_vars

\* x joined third and adopted the roster <<h, y, x>>; y's connection then
\* closed and the roster is <<h, x>>.
C15_Witness ==
    \E c \in Live, d \in Live :
        LET h == Conn(c).sv
            x == Conn(c).cl
            y == Conn(d).cl
        IN /\ Conn(c).kind = "host" /\ Conn(d).kind = "host" /\ Conn(d).sv = h
           /\ IsLeader(h)
           /\ Conn(c).lobbyPeers = <<h, y, x>>
           /\ Conn(d).ev = "removed"
           /\ lobbyConnectedPeers[h] = <<h, x>>

\* The chunk indices any reference point of the model can bring into the cache.
KeyWindow == (0 - (MaxCoord + MaxRenderDistance + 1))..(MaxCoord + MaxRenderDistance + 1)

\* The centre <<i * chunkSize, j * chunkSize>> of chunk <<i, j>> is within
\* renderDistance of pt (both sides of the comparison squared).
CentreWithin(i, j, pt) ==
    (i * chunkSize - pt[1]) * (i * chunkSize - pt[1])
        + (j * chunkSize - pt[2]) * (j * chunkSize - pt[2])
      <= renderDistance * renderDistance

\* C16: after update(p) has returned, a chunk key <<i, j>> is in the cache if
\* and only if the Euclidean distance from the chunk's centre to p is at most
\* renderDistance, whether p is chunk-aligned or not.
C16_CacheIsEuclideanDisc ==
    lastCall = "updated" =>
        \A i \in KeyWindow, j \in KeyWindow :
            <<i, j>> \in ChunkKeys(terrainChunks) <=> CentreWithin(i, j, lastPoint)

\* The same for reference points on a chunk centre.
C16_AlignedPoint ==
    (lastCall = "updated" /\ lastPoint[1] % chunkSize = 0 /\ lastPoint[2] % chunkSize = 0) =>
        \A i \in KeyWindow, j \in KeyWindow :
            <<i, j>> \in ChunkKeys(terrainChunks) <=> CentreWithin(i, j, lastPoint)

\* The offsets the disc of chunks can reach.
OffsetWindow == (0 - (MaxRenderDistance + 1))..(MaxRenderDistance + 1)

\* The keys <<cx + dx, cz + dz>> with sqrt(dx^2 + dz^2) * S <= R around the
\* chunk <<cx, cz>> = <<floor(x / S), floor(z / S)>> of pt.
DiscAround(pt) ==
    {<<(pt[1] \div chunkSize) + dx, (pt[2] \div chunkSize) + dz>> :
        <<dx, dz>> \in {d \in OffsetWindow \X OffsetWindow :
                          (d[1] * d[1] + d[2] * d[2]) * chunkSize * chunkSize
                              <= renderDistance * renderDistance}}

\* C17: after update(p) the cache holds exactly the keys <<cx + dx, cz + dz>>
\* with sqrt(dx^2 + dz^2) * chunkSize <= renderDistance, where <<cx, cz>> is
\* the chunk of p; with chunk size 100, render distance 150 and p = (0, 0)
\* these are the nine keys {-1, 0, 1} x {-1, 0, 1}, and <<2, 0>> is absent.
C17_CacheIsChunkDisc ==
    lastCall = "updated" =>
        /\ ChunkKeys(terrainChunks) = DiscAround(lastPoint)
        /\ (chunkSize = 100 /\ renderDistance = 150 /\ lastPoint = <<0, 0>>) =>
              /\ ChunkKeys(terrainChunks) = {-1, 0, 1} \X {-1, 0, 1}
              /\ <<2, 0>> \notin ChunkKeys(terrainChunks)

\* Chunk size 100, render distance 150: the cache was filled around one
\* chunk, then update((0, 0)) evicted and created chunks and left nine.
C17_Witness ==
    /\ chunkSize = 100 /\ renderDistance = 150
    /\ lastCall = "updated" /\ lastPoint = <<0, 0>>
    /\ Len(terrainChunks) = 9
    /\ released # {}
    /\ \E i \in 1..Len(terrainChunks) : terrainChunks[i].born = frame
    /\ \E i \in 1..Len(terrainChunks) : terrainChunks[i].born < frame

C18_Step ==
    LET old == terrainChunks
        new == terrainChunks'
        req == DiscAround(lastPoint')
    IN /\ \A i \in 1..Len(new) :
            new[i].born = frame' => new[i].key \notin ChunkKeys(old)
       /\ \A i \in 1..Len(old) :
            IF old[i].key \in req
            THEN /\ old[i] \in Range(new)
                 /\ <<old[i].key, old[i].born>> \notin released'
            ELSE old[i].key \notin ChunkKeys(new) =>
                    <<old[i].key, old[i].born>> \in released'
       /\ released' \subseteq {<<old[i].key, old[i].born>> : i \in 1..Len(old)}
       /\ (lastCall = "updated" /\ lastPoint' = lastPoint) =>
            (new = old /\ released' = {})

\* C18: with no regeneration transition active, update(p) creates a chunk
\* only for a key that was missing, and evicts, disposing of its mesh, only
\* chunks that are not required; a cached chunk that is required stays the
\* same object with the same baseline heights; an update at the reference
\* point of the update before it creates and evicts nothing.
C18_UpdateFrame ==
    [][(frame' = frame + 1 /\ ~regenLerpActive) => C18_Step]_vars

\* Three updates: the second kept chunks of the first, evicted others and
\* created new ones; the third created and evicted nothing.
C18_Witness ==
    /\ frame = 3 /\ lastCall = "updated" /\ released = {}
    /\ \E i \in 1..Len(terrainChunks) : terrainChunks[i].born = 1
    /\ \E i \in 1..Len(terrainChunks) : terrainChunks[i].born = 2
    /\ \A i \in 1..Len(terrainChunks) :
         terrainChunks[i].born < 3 /\ terrainChunks[i].mesh = "live"
    /\ Cardinality({i \in 1..Len(terrainChunks) : terrainChunks[i].born = 1})
         < Len(terrainChunks)

\* The chunk has a mesh and (chunkResolution + 1)^2 baseline height samples.
Materialized(ch) ==
    /\ ch.mesh # "null"
    /\ Len(ch.originalHeights) = (chunkResolution + 1) * (chunkResolution + 1)

\* C19: in every reachable state every chunk in the cache is fully
\* materialized, whatever seed the generator holds.
C19_NoPartialChunk ==
    \A i \in 1..Len(terrainChunks) : Materialized(terrainChunks[i])

\* The same for the chunks created while the seed is not zero.
C19_NonZeroSeed ==
    terrainSeed # 0 => \A i \in 1..Len(terrainChunks) : Materialized(terrainChunks[i])

\* C20: a seed applied to a generator with an empty cache becomes the
\* generator's seed, starts no transition and leaves the cache empty; every
\* chunk created after it is what createTerrainChunk computes under that seed.
C20_SeedAdoptedOnEmptyCache ==
    /\ [][(lastCall' = "seeded" /\ terrainChunks = <<>>) =>
            /\ terrainSeed' = hostSeed'
            /\ terrainChunks' = <<>>
            /\ ~regenLerpActive'
            /\ UNCHANGED regenVars]_vars
    /\ [][(frame' = frame + 1 /\ seedSetBy = "setTerrainSeedAndRegenerate") =>
            terrainSeed' = hostSeed]_vars
    /\ [](\A i \in 1..Len(terrainChunks) :
            terrainChunks[i] =
                CreateTerrainChunk(terrainSeed, terrainChunks[i].key, terrainChunks[i].born)
            \/ terrainChunks[i] =
                [CreateTerrainChunk(terrainSeed, terrainChunks[i].key, terrainChunks[i].born)
                    EXCEPT !.mesh = "disposed"])

\* A generator constructed with one seed was given another while its cache
\* was empty, and has since created chunks under the new seed.
C20_Witness ==
    /\ seedSetBy = "setTerrainSeedAndRegenerate"
    /\ hostSeed = 1
    /\ lastCall = "updated"
    /\ frame = 1
    /\ terrainChunks # <<>>
    /\ terrainSeed = 1
    /\ \A i \in 1..Len(terrainChunks) :
         /\ terrainChunks[i].originalHeights # <<>>
         /\ \A n \in 1..Len(terrainChunks[i].originalHeights) :
              terrainChunks[i].originalHeights[n].seed = 1

----------------------------------------------------------------------------
\* The new samples a transition to newSeed holds for chunk k: one per vertex,
\* computed under newSeed at the vertex's world position.
SamplesUnder(newSeed, k, samples) ==
    /\ Len(samples) = (chunkResolution + 1) * (chunkResolution + 1)
    /\ \A n \in 1..Len(samples) :
         samples[n].seed = newSeed /\ samples[n].at = VertexAt(k, n)

\* A seed-application call on a cache that holds fully built chunks.
SeededWithChunks ==
    /\ frame' = frame
    /\ lastCall' = "seeded"
    /\ terrainChunks # <<>>
    /\ \A i \in 1..Len(terrainChunks) : Materialized(terrainChunks[i])

\* C21: a seed applied while chunks are cached keeps the cached chunks and
\* starts a transition: right after the call a transition is active and
\* holds, for every cached chunk, its old height samples and the new samples
\* computed under the new seed.
C21_TransitionStarts ==
    [][SeededWithChunks =>
        /\ terrainChunks' = terrainChunks
        /\ regenLerpActive'
        /\ regenSeed' = hostSeed'
        /\ DOMAIN regenOldHeights' = ChunkKeys(terrainChunks)
        /\ DOMAIN regenNewHeights' = ChunkKeys(terrainChunks)
        /\ \A k \in ChunkKeys(terrainChunks) :
             /\ regenOldHeights'[k] = ChunkAt(terrainChunks, k).originalHeights
             /\ SamplesUnder(hostSeed', k, regenNewHeights'[k])]_vars

\* What the call does instead: the cache is emptied, the seed is taken over
\* at once and the transition fields are left as they were.
C21_CacheCleared ==
    [][SeededWithChunks =>
        /\ terrainChunks' = <<>>
        /\ terrainSeed' = hostSeed'
        /\ UNCHANGED regenVars]_vars

\* The transition's old and new samples for vertex n of the chunk with key k,
\* blended at t = min(1, elapsed / duration), are what pos shows there.
ShowsBlend(pos, k, n, elapsed) ==
    LET t == IF elapsed >= regenLerpDuration THEN <<1, 1>>
             ELSE <<elapsed, regenLerpDuration>>
    IN /\ k \in DOMAIN pos /\ n <= Len(pos[k])
       /\ k \in DOMAIN regenOldHeights /\ n <= Len(regenOldHeights[k])
       /\ k \in DOMAIN regenNewHeights /\ n <= Len(regenNewHeights[k])
       /\ pos[k][n] = LerpHeight(regenOldHeights[k][n], regenNewHeights[k][n], t)

\* What an update() step owes an active transition.
C22_Step ==
    LET elapsed == regenLerpTime + (wavePhase' - wavePhase)
    IN /\ \A i \in 1..Len(terrainChunks') :
            \A n \in 1..Len(terrainChunks'[i].originalHeights) :
                ShowsBlend(positions', terrainChunks'[i].key, n, elapsed)
       /\ IF elapsed >= regenLerpDuration
          THEN /\ \A i \in 1..Len(terrainChunks') :
                    \A n \in 1..Len(terrainChunks'[i].originalHeights) :
                       /\ positions'[terrainChunks'[i].key][n] =
                              regenNewHeights[terrainChunks'[i].key][n]
                       /\ terrainChunks'[i].originalHeights[n] =
                              regenNewHeights[terrainChunks'[i].key][n]
               /\ terrainSeed' = regenSeed
               /\ ~regenLerpActive'
          ELSE regenLerpActive' /\ regenLerpTime' = elapsed

\* C22: while a transition of duration D is active, after each update every
\* vertex of every cached chunk shows old + (new - old) * t with
\* t = min(1, elapsed / D); in the first update with elapsed >= D every
\* vertex shows new, new becomes each chunk's baseline, the generator's seed
\* becomes the pending seed and the transition is no longer active.  (Stated
\* for seeds other than 0, under which every chunk has a mesh and samples.)
C22_Interpolation ==
    [][(frame' = frame + 1 /\ regenLerpActive /\ terrainSeed # 0 /\ regenSeed # 0
            /\ \A i \in 1..Len(terrainChunks) : Materialized(terrainChunks[i]))
         => C22_Step]_vars

\* The same for the updates that return.
C22_WhenUpdateReturns ==
    [][(frame' = frame + 1 /\ regenLerpActive /\ lastCall' = "updated") => C22_Step]_vars

\* A transition of duration 2 is half-way: some vertex shows the midpoint of
\* two different samples.
C22_Midpoint ==
    /\ regenLerpActive /\ regenLerpDuration = 2 /\ regenLerpTime = 1
    /\ lastCall = "updated"
    /\ \E k \in DOMAIN positions : \E n \in 1..Len(positions[k]) :
         positions[k][n].by = "lerp" /\ positions[k][n].t = <<1, 2>>

\* A seed-application or regenerateTerrain call made while a transition is
\* active, on a cache of fully built chunks under seeds other than 0.
SecondCall ==
    /\ frame' = frame
    /\ regenLerpActive
    /\ terrainSeed # 0 /\ regenSeed # 0
    /\ terrainChunks # <<>>
    /\ \A i \in 1..Len(terrainChunks) : Materialized(terrainChunks[i])

\* C23: a second applySeed or regenerateTerrain call made before the active
\* transition completes restarts it with elapsed = 0 from the heights shown at
\* that moment: the old samples of the restarted transition are the displayed
\* heights.  (There is one set of transition fields per generator, so at most
\* one transition is active.)
C23_RestartFromDisplayed ==
    [][SecondCall =>
        /\ regenLerpActive'
        /\ regenLerpTime' = 0
        /\ \A i \in 1..Len(terrainChunks) :
             LET k == terrainChunks[i].key
             IN /\ k \in DOMAIN regenOldHeights'
                /\ regenOldHeights'[k] = positions[k]]_vars

\* What regenerateTerrain does instead: it restarts from each chunk's
\* baseline, whatever is displayed.
C23_RestartFromBaseline ==
    [][(SecondCall /\ lastCall' = "regenerating") =>
        /\ regenLerpActive'
        /\ regenLerpTime' = 0
        /\ \A i \in 1..Len(terrainChunks) :
             LET k == terrainChunks[i].key
             IN /\ k \in DOMAIN regenOldHeights'
                /\ regenOldHeights'[k] = terrainChunks[i].originalHeights]_vars

\* A regenerateTerrain call finds a transition half-way, its chunks showing
\* blended heights.
C23_Interrupted ==
    /\ lastCall = "regenerating"
    /\ regenLerpActive /\ regenLerpTime = 0
    /\ terrainChunks # <<>>
    /\ \A i \in 1..Len(terrainChunks) :
         /\ terrainChunks[i].key \in DOMAIN positions
         /\ \A n \in 1..Len(terrainChunks[i].originalHeights) :
              positions[terrainChunks[i].key][n].by = "lerp"

\* C24: with a seed that is 0 or missing, generateTerrainHeight(x, z) returns
\* exactly 0 for every (x, z), whatever features the point falls in.
C24_FlatWithoutSeed ==
    \A i \in 1..Len(heightCalls) :
        Falsy(heightCalls[i].seed) => heightCalls[i].height = Num(0)

\* Heights were asked of a generator with seed 0 and of one with no seed, at
\* points that lie in a land mass.
C24_Witness ==
    /\ landRoll
    /\ \E i, j \in 1..Len(heightCalls) :
         /\ heightCalls[i].seed = 0 /\ heightCalls[i].height = Num(0)
         /\ heightCalls[j].seed = NoSeed /\ heightCalls[j].height = Num(0)

\* C25: a seed that is 0 or missing is no error: with such a seed every
\* update(p) and every seed-application call returns without raising, and an
\* update leaves the cache holding exactly the required chunks.
C25_ZeroSeedNoError ==
    Falsy(terrainSeed) =>
        /\ lastCall # "TypeError"
        /\ lastCall = "updated" => ChunkKeys(terrainChunks) = DiscAround(lastPoint)

\* Without a seed, only an update that evicts nothing returns.
C25_NoEviction ==
    [][(frame' = frame + 1 /\ Falsy(terrainSeed)
            /\ ChunkKeys(terrainChunks) \subseteq DiscAround(lastPoint'))
         => lastCall' = "updated"]_vars

IsUint32(a) == ~a.neg /\ \A i \in 33..64 : a.mag[i] = 0

\* C27: hash2D is total and deterministic over integer inputs: every call
\* returns an integer in [0, 2^32), hash2D(0, 0, 0) is 0, and calls with equal
\* inputs return equal results.
C27_HashTotalDeterministic ==
    \A i \in 1..Len(hashCalls) :
        /\ IsUint32(hashCalls[i].hash)
        /\ (hashCalls[i].seed = 0 /\ hashCalls[i].x = 0 /\ hashCalls[i].z = 0)
                => hashCalls[i].hash = Integer(0)
        /\ \A j \in 1..Len(hashCalls) :
                (hashCalls[i].seed = hashCalls[j].seed /\ hashCalls[i].x = hashCalls[j].x
                    /\ hashCalls[i].z = hashCalls[j].z)
                    => hashCalls[i].hash = hashCalls[j].hash

\* hash2D(0, 0, 0) was called, and then a call with a negative coordinate
\* returned a number of 31 bits.
C27_Witness ==
    /\ Len(hashCalls) = 2
    /\ hashCalls[1].seed = 0 /\ hashCalls[1].x = 0 /\ hashCalls[1].z = 0
    /\ hashCalls[2].x < 0
    /\ hashCalls[2].hash.mag[31] = 1

\* C28: the closures seededRandom returns are independent and restartable:
\* two closures made from the same seed return the same value at the same
\* position of their sequences, however their calls are interleaved with each
\* other and with other closures, and a closure made from seed 0 returns 0 on
\* every call.
C28_IndependentStreams ==
    \A i, j \in 1..Len(streams) :
        /\ streams[i].seed = streams[j].seed
            => \A k \in 1..Len(streams[i].drawn) :
                    k <= Len(streams[j].drawn)
                        => streams[i].drawn[k].value = streams[j].drawn[k].value
        /\ streams[i].seed = 0
            => \A k \in 1..Len(streams[i].drawn) : streams[i].drawn[k].value = Num(0)

\* Two closures from the same non-zero seed and one from seed 0 were each
\* called twice; the second closure made both its calls between the two calls
\* of the first, and the zero closure was called in between as well.
C28_Witness ==
    /\ Len(streams) = 3
    /\ streams[1].seed = 1 /\ streams[2].seed = 1 /\ streams[3].seed = 0
    /\ \A i \in 1..3 : Len(streams[i].drawn) = 2
    /\ streams[1].drawn[1].nth = 1 /\ streams[1].drawn[2].nth = 6
    /\ streams[3].drawn[1].nth = 3
    /\ streams[1].drawn[2].value # streams[1].drawn[1].value

\* The vertex numbers <<in a, in b>> of the vertices on the edge shared by a
\* chunk a and its neighbour b at offset d: the last column (row) of a and
\* the first column (row) of b.
SharedEdge(d) ==
    {IF d = <<1, 0>>
        THEN <<r * (chunkResolution + 1) + chunkResolution + 1, r * (chunkResolution + 1) + 1>>
        ELSE <<chunkResolution * (chunkResolution + 1) + r + 1, r + 1>> : r \in 0..chunkResolution}

\* Chunk b is the neighbour of chunk a at offset d, both with their samples.
AdjacentChunks(a, b, d) ==
    /\ Materialized(a) /\ Materialized(b)
    /\ b.key = <<a.key[1] + d[1], a.key[2] + d[2]>>

\* C29: two edge-adjacent chunks in the cache agree on their shared edge:
\* each vertex of the last column (row) of one has the world coordinates of
\* the matching vertex of the first column (row) of the other, and both chunks
\* store the same baseline height for it.
C29_BoundaryAgreement ==
    \A i, j \in 1..Len(terrainChunks) : \A d \in {<<1, 0>>, <<0, 1>>} :
        AdjacentChunks(terrainChunks[i], terrainChunks[j], d)
            => \A e \in SharedEdge(d) :
                /\ VertexAt(terrainChunks[i].key, e[1]) = VertexAt(terrainChunks[j].key, e[2])
                /\ terrainChunks[i].originalHeights[e[1]] = terrainChunks[j].originalHeights[e[2]]

\* Under a non-zero seed the cache holds a chunk together with its neighbour
\* in x and its neighbour in z, created by different updates, and the heights
\* on the shared edges are generated ones.
C29_Witness ==
    /\ terrainSeed # 0
    /\ \E i, j, k \in 1..Len(terrainChunks) :
        /\ AdjacentChunks(terrainChunks[i], terrainChunks[j], <<1, 0>>)
        /\ AdjacentChunks(terrainChunks[i], terrainChunks[k], <<0, 1>>)
        /\ terrainChunks[i].born # terrainChunks[j].born
        /\ \A e \in SharedEdge(<<1, 0>>) :
              terrainChunks[j].originalHeights[e[2]].by = "generateTerrainHeight"

\* Member p has handled the packets of host h among the first n posted to it.
BroadcastsHandled(p, h) ==
    {i \in 1..handled[p] : networkData[p][i].type = "player_state"
                            /\ networkData[p][i].peerId = h}

\* C30: seed convergence.  Every state broadcast of the host that reaches a
\* member carries the host's terrain seed, and a roster member that has
\* handled such a broadcast holds the host's seed.
C30_SeedConvergence ==
    \A h, p \in Peers :
        (isBase[h] /\ holder = h /\ p # h /\ p \in Range(lobbyConnectedPeers[h]))
            => /\ \A i \in 1..Len(networkData[p]) :
                    (networkData[p][i].type = "player_state" /\ networkData[p][i].peerId = h)
                        => /\ "terrainSeed" \in DOMAIN networkData[p][i].state
                           /\ networkData[p][i].state.terrainSeed = globalTerrainSeed[h]
               /\ BroadcastsHandled(p, h) # {} => globalTerrainSeed[p] = globalTerrainSeed[h]

\* What the handler does take from the host's broadcast: a roster member that
\* has handled one runs on the host's ocean clock.
C30_OceanClockConverges ==
    \A h, p \in Peers :
        (isBase[h] /\ holder = h /\ p # h /\ p \in Range(lobbyConnectedPeers[h])
            /\ BroadcastsHandled(p, h) # {})
            => globalOceanStartTime[p] = globalOceanStartTime[h]

\* Every roster member of a full lobby has handled a broadcast of the host,
\* and one of them still holds a seed of its own.
C30_Diverged ==
    \E h \in Peers :
        /\ isBase[h] /\ holder = h /\ lobbyFull[h] /\ Len(lobbyConnectedPeers[h]) > 1
        /\ \A p \in Range(lobbyConnectedPeers[h]) \ {h} : BroadcastsHandled(p, h) # {}
        /\ \E p \in Range(lobbyConnectedPeers[h]) : globalTerrainSeed[p] # globalTerrainSeed[h]

\* An update() call ends a transition: the interpolation reached t = 1 and
\* the new samples were adopted.
TransitionCompletes == regenLerpActive /\ ~regenLerpActive' /\ lastCall' = "updated"

\* C31: regeneration agrees with creation.  When a transition to seed s
\* completes, every cached chunk holds as its baseline the samples
\* createTerrainChunk computes for that chunk under s.
C31_RegenerationAgrees ==
    [][TransitionCompletes
        => \A i \in 1..Len(terrainChunks') :
              terrainChunks'[i] =
                  [CreateTerrainChunk(terrainSeed', terrainChunks'[i].key, terrainChunks'[i].born)
                      EXCEPT !.mesh = terrainChunks'[i].mesh]]_vars

\* What does hold at completion: the generator's seed is the transition's
\* seed and every chunk's baseline is the sample set generateTerrainHeightWithSeed
\* computed for it when a transition began.
C31_AdoptsStoredSamples ==
    [][TransitionCompletes
        => /\ terrainSeed' = regenSeed
           /\ \A i \in 1..Len(terrainChunks') :
                 terrainChunks'[i].originalHeights # <<>>
                    => /\ terrainChunks'[i].originalHeights = regenNewHeights[terrainChunks'[i].key]
                       /\ \A n \in 1..Len(terrainChunks'[i].originalHeights) :
                             terrainChunks'[i].originalHeights[n].by = "generateTerrainHeightWithSeed"]_vars

\* A transition between two non-zero seeds has completed on a cache of
\* chunks with samples.
C31_Completed ==
    /\ seedSetBy = "update" /\ lastCall = "updated" /\ ~regenLerpActive
    /\ terrainSeed # 0
    /\ terrainChunks # <<>>
    /\ \A i \in 1..Len(terrainChunks) :
          /\ Materialized(terrainChunks[i])
          /\ terrainChunks[i].originalHeights # ChunkHeights(terrainSeed, terrainChunks[i].key)
          /\ terrainChunks[i].originalHeights[1].seed = terrainSeed

\* The active transition holds old and new samples for every cached chunk.
CoversCache ==
    \A i \in 1..Len(terrainChunks) :
        /\ terrainChunks[i].key \in DOMAIN regenOldHeights
        /\ terrainChunks[i].key \in DOMAIN regenNewHeights
        /\ Len(regenOldHeights[terrainChunks[i].key]) = Len(terrainChunks[i].originalHeights)
        /\ Len(regenNewHeights[terrainChunks[i].key]) = Len(terrainChunks[i].originalHeights)

\* C32: while a transition is active it holds samples for every chunk in
\* the cache.  An update() call made during a transition, on a generator
\* with a seed whose chunks all have their mesh, returns without error
\* wherever the reference point has moved, and if the transition is still
\* active afterwards it covers the cache the call has left.
C32_TransitionCoversCache ==
    [][(regenLerpActive /\ frame' = frame + 1 /\ ~Falsy(terrainSeed)
            /\ \A i \in 1..Len(terrainChunks) : Materialized(terrainChunks[i]))
        => /\ lastCall' = "updated"
           /\ regenLerpActive' => CoversCache']_vars

\* An update() during a transition that leaves the set of cached keys as
\* it was returns without error.
C32_SteadyCacheReturns ==
    [][(regenLerpActive /\ frame' = frame + 1 /\ ~Falsy(terrainSeed)
            /\ CoversCache
            /\ ChunkKeys(terrainChunks') = ChunkKeys(terrainChunks)
            /\ \A i \in 1..Len(terrainChunks) : Materialized(terrainChunks[i]))
        => lastCall' = "updated"]_vars

\* An update() during a transition raised after it had created a chunk
\* that the transition has no samples for.
C32_Uncovered ==
    /\ regenLerpActive /\ lastCall = "TypeError" /\ ~Falsy(terrainSeed)
    /\ \A i \in 1..Len(terrainChunks) : Materialized(terrainChunks[i])
    /\ \E i \in 1..Len(terrainChunks) :
          /\ terrainChunks[i].born = frame
          /\ terrainChunks[i].key \notin DOMAIN regenOldHeights

\* The trenches seen so far whose footprint holds the sample point.
TrenchesInside ==
    {t \in UNION {{trenchPass.cells[i][1].wide, trenchPass.cells[i][1].snake} :
                    i \in {j \in 1..Len(trenchPass.cells) : trenchPass.cells[j] # <<>>}} :
        t.inside}

\* The deepest of the results of blending each such trench with the height
\* the pass began with; that height itself when there is none.
DeepestBlended ==
    LET results == {trenchPass.height} \cup
                   {Blended(t.trenchDepth, t.blend, trenchPass.height) : t \in TrenchesInside}
    IN CHOOSE d \in results : \A e \in results : d <= e

\* C33: trench carving selects by depth.  Whatever cells have been visited,
\* in whatever order and with whatever weights, the depth the pass holds is
\* the deepest blended result among the trenches whose footprint holds the
\* point.
C33_SelectsDeepest == trenchPass.trenchFinalDepth = DeepestBlended

\* With a single trench over the point and no ridges the pass returns that
\* trench's blended result.
C33_SingleTrench ==
    (/\ Cardinality({i \in 1..Len(trenchPass.cells) : trenchPass.cells[i] # <<>>}) = 1
     /\ \A i \in 1..Len(trenchPass.cells) :
           trenchPass.cells[i] # <<>>
              => trenchPass.cells[i][1].ridge = 0 /\ ~trenchPass.cells[i][1].snake.inside)
        => trenchPass.trenchFinalDepth = DeepestBlended

\* Two trenches hold the point, no ridges: the one visited second has the
\* larger weight and was taken although the first one's result was deeper.
C33_ShallowerWins ==
    /\ Len(trenchPass.cells) = 2
    /\ \A i \in 1..2 : /\ trenchPass.cells[i] # <<>>
                       /\ trenchPass.cells[i][1].ridge = 0
                       /\ trenchPass.cells[i][1].wide.inside
                       /\ ~trenchPass.cells[i][1].snake.inside
    /\ trenchPass.cells[2][1].wide.blend > trenchPass.cells[1][1].wide.blend
    /\ trenchPass.trenchFinalDepth > DeepestBlended

\* C34: at every peer, host or client, two consecutive outbound broadcasts
\* of the application state are more than 100 ms apart, those of the frame
\* loop and those of the host's interval timer counted together.
C34_BroadcastRateLimit ==
    Len(loop.sent) = 2 => (loop.sent[2] - loop.sent[1]) * ClockUnit > 100

\* What the gate of lines 682-687 does give: at a peer without the interval
\* timer, a client, consecutive broadcasts are more than 100 ms apart.
C34_ClientRateLimit ==
    (~loop.isBase /\ Len(loop.sent) = 2)
        => (loop.sent[2] - loop.sent[1]) * ClockUnit > 100

\* A host has broadcast twice within 100 ms.
C34_TimerBetweenFrames ==
    /\ loop.isBase
    /\ Len(loop.sent) = 2
    /\ (loop.sent[2] - loop.sent[1]) * ClockUnit <= 100

\* A client has broadcast twice.
C34_ClientSentTwice == ~loop.isBase /\ Len(loop.sent) = 2

\* The identities a peer tracks a connection for.
Tracked(p) == {q \in Peers : lobbyPeerConnections[p][q] # 0}

\* C35: in every reachable state of a Leader the identities with a tracked
\* connection are the roster's identities other than the Leader: no member
\* is without a tracked connection, and none is tracked for an identity
\* outside the roster or for the Leader itself.
C35_RosterMatchesTable ==
    \A p \in Peers : IsLeader(p) => Tracked(p) = Range(lobbyConnectedPeers[p]) \ {p}

\* A Leader that tracks a member after the close handler has removed another.
C35_TrackedAfterRemoval ==
    \E p \in Peers :
        /\ IsLeader(p)
        /\ Tracked(p) # {}
        /\ \E c \in Live : Conn(c).sv = p /\ Conn(c).ev = "removed"

\* C36: a Leader handles each join_host and each relayed packet exactly once,
\* however many times it claimed the rendezvous identity before it was
\* granted: the joining client gets exactly one reply (waiting or
\* host_ready) per join_host, and each packet is delivered exactly once to
\* each other member and once to the Leader's main thread.
C36_HandledOnce ==
    [][\A c \in ConnIds :
          /\ HostJoin(c) => Len(conns'[c].toCl) = Len(conns[c].toCl) + 1
          /\ HostRelay(c) =>
                LET h == Conn(c).sv
                IN /\ Len(networkData'[h]) = Len(networkData[h]) + 1
                   /\ \A q \in RelayTargets(Lobby(h), Head(Conn(c).toSv)) :
                         LET k == lobbyPeerConnections[h][q]
                         IN Len(conns'[k].toCl) = Len(conns[k].toCl) + 1]_vars

\* What the handlers do give: one reply and one delivery for each
\* registration of the 'connection' handler at the time the connection came.
C36_OncePerRegistration ==
    [][\A c \in ConnIds :
          /\ HostJoin(c) => Len(conns'[c].toCl) = Len(conns[c].toCl) + Conn(c).nh
          /\ HostRelay(c) =>
                LET h == Conn(c).sv
                IN /\ Len(networkData'[h]) = Len(networkData[h]) + Conn(c).nh
                   /\ \A q \in RelayTargets(Lobby(h), Head(Conn(c).toSv)) :
                         LET k == lobbyPeerConnections[h][q]
                         IN Len(conns'[k].toCl) = Len(conns[k].toCl) + Conn(c).nh]_vars

\* A Leader that claimed more than once has answered a join_host.
C36_LateLeaderJoined ==
    \E p \in Peers :
        /\ IsLeader(p)
        /\ nHandlers[p] > 1
        /\ Len(lobbyConnectedPeers[p]) > 1

\* C37: after onHostSeedReceived(s) has returned, terrainSeed is s and stays
\* s over the update() calls that follow, until the next seed-setting call;
\* the completion of a transition started earlier for another seed does not
\* overwrite it.  Stated for the update() that follows the call directly,
\* before which no other call can have set a seed.
C37_HostSeedKept ==
    [][(lastCall = "seeded" /\ frame' = frame + 1) => terrainSeed' = hostSeed]_vars

\* Without a transition under way the seed of the host is kept by every
\* update(), whatever it does to the cache.
C37_KeptWithoutTransition ==
    [][(hostSeed # NoSeed /\ terrainSeed = hostSeed /\ ~regenLerpActive /\ frame' = frame + 1)
          => terrainSeed' = hostSeed]_vars

\* The completion of a transition has replaced the seed the host sent.
C37_Overwritten ==
    /\ hostSeed # NoSeed
    /\ seedSetBy = "update"
    /\ terrainSeed # hostSeed
    /\ lastCall = "updated"

\* The pawns the host holds for the client.
ClientPawns == {pawn \in handoff.aiPlayers \cup handoff.hostedClientAIPlayers : pawn[1] # 0}

\* C39: the AI hand-off is idempotent on the host: a repeated client_ai_info
\* of the same peer replaces the pawns spawned for it before, so the host
\* holds only the pawns of that peer's latest message.
C39_LatestOnly == \A pawn \in ClientPawns : pawn[1] = handoff.handledInfo

\* What the handler does: the pawns go to aiPlayers and are never recorded
\* for the peer, so no message removes a pawn.
C39_NeverRemoved ==
    [][/\ handoff.aiPlayers \subseteq handoff'.aiPlayers
       /\ handoff'.clientContributedAIByPeer \in {<<>>, <<{}>>}
       /\ handoff'.hostedClientAIPlayers = {}]_vars

\* The host holds the pawns of two messages of the client.
C39_Doubled ==
    /\ handoff.handledInfo = 2
    /\ \E i \in 1..MaxAI : {<<1, i>>, <<2, i>>} \subseteq handoff.aiPlayers

\* Member connection c is up at both ends and the roster its client adopted
\* from host_ready is not the roster of the Leader it is connected to.
StaleRoster(c) ==
    /\ c \in Live
    /\ Conn(c).kind = "host"
    /\ Conn(c).clOpen /\ Conn(c).svOpen
    /\ IsLeader(Conn(c).sv)
    /\ Conn(c).lobbyPeers # <<>>
    /\ Conn(c).lobbyPeers # lobbyConnectedPeers[Conn(c).sv]

\* C38: whenever the Leader's roster changes after host_ready was sent, by a
\* member's connection closing or a replacement joining, every remaining
\* member is eventually sent the new roster: no client keeps for ever an
\* adopted roster that holds an identity the Leader has removed.
C38_RosterAgreement == \A c \in ConnIds : StaleRoster(c) ~> ~StaleRoster(c)

\* Among exactly LOBBY_SIZE peers a member's adopted roster differs from the
\* Leader's only after a close handler has removed an identity.
C38_StaleOnlyAfterRemoval ==
    \A c \in ConnIds :
        StaleRoster(c) => \E d \in Live : Conn(d).sv = Conn(c).sv /\ Conn(d).ev = "removed"

\* A remaining member holds the identity of a member the Leader removed.
C38_RemovedStillListed ==
    \E c \in ConnIds :
        /\ StaleRoster(c)
        /\ \E q \in Range(Conn(c).lobbyPeers) : q \notin Range(lobbyConnectedPeers[Conn(c).sv])

====
